---- MODULE Spec2Model ----
(***************************************************************************)
(* A model of the bulk-mutation core of the data workspace: the client     *)
(* cache of cell values and its upsert / refresh paths, the undo/redo      *)
(* ledger of the grid, the batched enrichment / verification runs and the  *)
(* batched imports, all running against the row / cell store.              *)
(***************************************************************************)
EXTENDS Integers, Sequences, FiniteSets, TLC

(***************************************************************************)
(* Bounds of the model.                                                    *)
(***************************************************************************)
MaxRows == 1
MaxCalls == 2
MaxFetches == 1
MaxEdits == 3

\* batchSize of fetchWorkspaceData's cell reads
FetchBatchSize == 500

ColumnIds == {1, 2}
Values == {"a", "b"}

\* what a grid row holds for a column that has no CellValue
Undefined == "<undefined>"

VARIABLES
    storeRows,    \* the store's rows table: the set of row ids
    storeCells,   \* the store's cell_values table: a set of records
    nextRowId,    \* the id the store gives to the next inserted row
    rows,         \* the provider's rows state: a sequence of row ids
    cellValues,   \* the provider's cellValues state: a sequence of records
    inflight,     \* upsertCellValue calls that have not returned yet
    fetches,      \* fetchWorkspaceData calls that have not returned yet
    nCalls,       \* upsertCellValue calls issued so far
    nFetches,     \* fetchWorkspaceData calls issued so far
    twice,        \* history: two successive equal upserts and the state between
    undoStack,    \* undoStackRef.current
    redoStack,    \* redoStackRef.current
    toast,        \* the last toast shown
    law,          \* history: an edit, its undo and its redo run one after the other
    stale,        \* history: entries outside the undo stack when an edit was recorded
    lastOutcome,  \* history: the undo / redo that has just failed
    run,          \* the batched run or import in progress: its loop variables
    requests,     \* the position of each item's request in a batched run
    failed,       \* history: the items of the run whose request failed
    progress,     \* the done values handed to setProgress, in order
    summary,      \* the toast that closes the run
    attempted,    \* history: the items whose store write or request was issued
    submitted,    \* the cell_values payload of the last insert of an import
    storeColumns, \* the store's column_definitions table: a set of records
    columns,      \* the provider's columns state: a sequence of records
    nextColId,    \* the id the store gives to the next inserted column
    mapper,       \* the mapping step: a source label, the columns, the targets
    dialog,       \* the column-settings dialog and its delete request
    colLog,       \* history: the addColumn calls, in order
    activeWorkspaceId, \* the provider's activeWorkspaceId state
    widths,       \* the width of each column in the provider's columns state
    storeWidths,  \* the width of each column in the store
    widthTimers,  \* widthTimersRef.current: column id -> timer
    timers        \* the timers updateColumnWidth has set, and their position

cacheVars == <<storeRows, storeCells, nextRowId, rows, cellValues, inflight,
               fetches, nCalls, nFetches, twice>>

cacheVars_but_inflight == <<storeRows, storeCells, nextRowId, rows, cellValues,
                            fetches, nCalls, nFetches, twice>>

ledgerVars == <<undoStack, redoStack, toast, law, stale, lastOutcome>>

jobVars == <<run, requests, failed, progress, summary, attempted, submitted>>

colVars == <<storeColumns, columns, nextColId, mapper, dialog, colLog>>

navVars == <<activeWorkspaceId, widths, storeWidths, widthTimers, timers>>

vars == <<cacheVars, ledgerVars, jobVars, colVars, navVars>>

(***************************************************************************)
(* Helpers on sequences and sets.                                          *)
(***************************************************************************)
RECURSIVE SetToSeq(_)
SetToSeq(S) ==
    IF S = {} THEN <<>>
    ELSE LET x == CHOOSE y \in S : TRUE IN <<x>> \o SetToSeq(S \ {x})

SeqToSet(s) == {s[i] : i \in 1..Len(s)}

Min(a, b) == IF a < b THEN a ELSE b

\* Array.prototype.slice(from, to), with 0-based bounds as in the source
Slice(s, from, to) == SubSeq(s, from + 1, Min(to, Len(s)))

(***************************************************************************)
(* The store: cell_values carries the unique key (row_id, column_id) that  *)
(* upsert names in onConflict.                                             *)
(***************************************************************************)
SameKey(x, r, c) == x.row_id = r /\ x.column_id = c

StoreCell(r, c, v) == [row_id |-> r, column_id |-> c, value |-> v]

StoreUpsertInsertOnly(cells, r, c, v) == cells \cup {StoreCell(r, c, v)}

\* supabase.from('cell_values').upsert(data, { onConflict: 'row_id,column_id' })
StoreUpsert(cells, r, c, v) ==
    {x \in cells : ~SameKey(x, r, c)} \cup {StoreCell(r, c, v)}

\* select * from cell_values where row_id in (batch)
StoreSelectCellsIn(cells, rowIds) ==
    SetToSeq({x \in cells : x.row_id \in rowIds})

(***************************************************************************)
(* The cache: the updater that upsertCellValue hands to setCellValues.     *)
(***************************************************************************)
FindIndex(cvs, r, c) ==
    IF \E i \in 1..Len(cvs) : SameKey(cvs[i], r, c)
    THEN CHOOSE i \in 1..Len(cvs) :
            /\ SameKey(cvs[i], r, c)
            /\ \A j \in 1..(i - 1) : ~SameKey(cvs[j], r, c)
    ELSE 0

CacheCell(id, r, c, v) == [id |-> id, row_id |-> r, column_id |-> c, value |-> v]

CacheUpsertAppendOnly(prev, r, c, v) == Append(prev, CacheCell("", r, c, v))

CacheUpsert(prev, r, c, v) ==
    LET idx == FindIndex(prev, r, c) IN
    IF idx >= 1
    THEN [prev EXCEPT ![idx] = [@ EXCEPT !.value = v]]
    ELSE Append(prev, CacheCell("", r, c, v))

\* the rows a fetch returns, as CellValue objects of the cache
FetchedCells(cells, rowIds) ==
    LET s == StoreSelectCellsIn(cells, rowIds) IN
    [i \in 1..Len(s) |-> CacheCell("db", s[i].row_id, s[i].column_id, s[i].value)]

(***************************************************************************)
(* The grid's view of the cache: gridRows, and the strings a cell edit     *)
(* event is read into.                                                     *)
(***************************************************************************)
\* rowObj[cv.column_id] = cv.value over the row's cells, in cache order
GridValue(cvs, r, c) ==
    LET hits == {i \in 1..Len(cvs) : SameKey(cvs[i], r, c)} IN
    IF hits = {} THEN Undefined
    ELSE cvs[CHOOSE i \in hits : \A j \in hits : j <= i].value

\* String(x ?? '')
ToStr(x) == IF x = Undefined THEN "" ELSE x

(***************************************************************************)
(* Histories.                                                              *)
(***************************************************************************)
Idle == [phase |-> "idle"]

NoOutcome == [op |-> "none"]

NoEntry == [seq |-> 0]

Quiet == inflight = {} /\ fetches = {}

\* the calls in flight, once another operation has started next to them
Disturbed(calls) == {[x EXCEPT !.solo = FALSE] : x \in calls}

(***************************************************************************)
(* Initial state: an active workspace with no rows, an empty cache and     *)
(* empty undo / redo stacks.                                               *)
(***************************************************************************)
InitCache ==
    /\ storeRows = {}
    /\ storeCells = {}
    /\ nextRowId = 1
    /\ rows = <<>>
    /\ cellValues = <<>>
    /\ inflight = {}
    /\ fetches = {}
    /\ nCalls = 0
    /\ nFetches = 0
    /\ twice = Idle

InitLedger ==
    /\ undoStack = <<>>
    /\ redoStack = <<>>
    /\ toast = ""
    /\ law = Idle
    /\ stale = {}
    /\ lastOutcome = NoOutcome

NoRun == [phase |-> "idle"]

NoSummary == [type |-> "none"]

InitJobs ==
    /\ run = NoRun
    /\ requests = <<>>
    /\ failed = {}
    /\ progress = <<>>
    /\ summary = NoSummary
    /\ attempted = {}
    /\ submitted = <<>>

\* ColumnDefinition
Column(id, name, field_key, position, is_ai_column) ==
    [id |-> id, name |-> name, field_key |-> field_key, position |-> position,
     is_ai_column |-> is_ai_column]

\* the two columns of the workspace: Email and Email Status
DefaultColumnDefs ==
    <<Column(1, "Email", "email", 0, FALSE),
      Column(2, "Email Status", "email_status", 1, FALSE)>>

NoMapper == [phase |-> "idle"]

NoDialog == [open |-> FALSE]

InitCols ==
    /\ storeColumns = SeqToSet(DefaultColumnDefs)
    /\ columns = DefaultColumnDefs
    /\ nextColId = Len(DefaultColumnDefs) + 1
    /\ mapper = NoMapper
    /\ dialog = NoDialog
    /\ colLog = <<>>

DefaultWidth == 200

NoTimer == 0

\* one workspace is active; no width has been changed
InitNav ==
    /\ activeWorkspaceId = 0
    /\ widths = [c \in ColumnIds |-> DefaultWidth]
    /\ storeWidths = [c \in ColumnIds |-> DefaultWidth]
    /\ widthTimers = [c \in ColumnIds |-> NoTimer]
    /\ timers = {}

Init == InitCache /\ InitLedger /\ InitJobs /\ InitCols /\ InitNav

\* a workspace already loaded into the grid: one row, whose first column
\* holds a value and whose second column holds none
InitGrid ==
    /\ storeRows = {1}
    /\ storeCells = {StoreCell(1, 1, "a")}
    /\ nextRowId = 2
    /\ rows = <<1>>
    /\ cellValues = <<CacheCell("db", 1, 1, "a")>>
    /\ inflight = {}
    /\ fetches = {}
    /\ nCalls = 0
    /\ nFetches = 0
    /\ twice = Idle
    /\ InitLedger
    /\ InitNav
    /\ InitJobs
    /\ InitCols

(***************************************************************************)
(* addRow: one row inserted into the store and appended to the rows state. *)
(***************************************************************************)
AddRow ==
    /\ nextRowId <= MaxRows
    /\ storeRows' = storeRows \cup {nextRowId}
    /\ rows' = Append(rows, nextRowId)
    /\ nextRowId' = nextRowId + 1
    /\ inflight' = Disturbed(inflight)
    /\ twice' = Idle
    /\ law' = Idle
    /\ lastOutcome' = NoOutcome
    /\ UNCHANGED <<storeCells, cellValues, fetches, nCalls, nFetches>>
    /\ UNCHANGED <<undoStack, redoStack, toast, stale>>
    /\ UNCHANGED jobVars
    /\ UNCHANGED colVars
    /\ UNCHANGED navVars

(***************************************************************************)
(* upsertCellValue, in three steps: the call is issued; the store applies  *)
(* the upsert or rejects it; the call returns, and on success runs the     *)
(* cache updater, on failure throws into its caller.                       *)
(***************************************************************************)
Call(id, caller, r, c, v, entry, solo, undo0, redo0) ==
    [id |-> id, caller |-> caller, rowId |-> r, columnId |-> c, value |-> v,
     entry |-> entry, pc |-> "sent", solo |-> solo, undo0 |-> undo0, redo0 |-> redo0]

UpsertCall(r, c, v) ==
    /\ nCalls < MaxCalls
    /\ r \in SeqToSet(rows)
    /\ nCalls' = nCalls + 1
    /\ inflight' = Disturbed(inflight) \cup
          {Call(nCalls + 1, "direct", r, c, v, NoEntry, Quiet, <<>>, <<>>)}
    /\ twice' = IF /\ Quiet
                   /\ twice.phase = "first"
                   /\ twice.rowId = r /\ twice.columnId = c /\ twice.value = v
                THEN [twice EXCEPT !.phase = "second"]
                ELSE Idle
    /\ UNCHANGED <<storeRows, storeCells, nextRowId, rows, cellValues, fetches, nFetches>>
    /\ UNCHANGED ledgerVars
    /\ UNCHANGED jobVars
    /\ UNCHANGED colVars
    /\ UNCHANGED navVars

UpsertStoreOk(call) ==
    /\ call \in inflight
    /\ call.pc = "sent"
    /\ storeCells' = StoreUpsert(storeCells, call.rowId, call.columnId, call.value)
    /\ inflight' = (inflight \ {call}) \cup {[call EXCEPT !.pc = "written"]}
    /\ lastOutcome' = NoOutcome
    /\ UNCHANGED <<storeRows, nextRowId, rows, cellValues, fetches, nCalls, nFetches, twice>>
    /\ UNCHANGED <<undoStack, redoStack, toast, law, stale>>
    /\ UNCHANGED jobVars
    /\ UNCHANGED colVars
    /\ UNCHANGED navVars

UpsertStoreError(call) ==
    /\ call \in inflight
    /\ call.pc = "sent"
    /\ inflight' = (inflight \ {call}) \cup {[call EXCEPT !.pc = "failed"]}
    /\ lastOutcome' = NoOutcome
    /\ UNCHANGED <<storeRows, storeCells, nextRowId, rows, cellValues, fetches,
                   nCalls, nFetches, twice>>
    /\ UNCHANGED <<undoStack, redoStack, toast, law, stale>>
    /\ UNCHANGED jobVars
    /\ UNCHANGED colVars
    /\ UNCHANGED navVars

UpsertReturn(call) ==
    /\ call \in inflight
    /\ call.caller = "direct"
    /\ call.pc = "written"
    /\ cellValues' = CacheUpsert(cellValues, call.rowId, call.columnId, call.value)
    /\ inflight' = inflight \ {call}
    /\ twice' = IF call.solo /\ fetches = {}
                THEN IF twice.phase = "second"
                     THEN [twice EXCEPT !.phase = "both"]
                     ELSE [phase |-> "first", rowId |-> call.rowId,
                           columnId |-> call.columnId, value |-> call.value,
                           cache |-> cellValues', store |-> storeCells]
                ELSE Idle
    /\ UNCHANGED <<storeRows, storeCells, nextRowId, rows, fetches, nCalls, nFetches>>
    /\ UNCHANGED ledgerVars
    /\ UNCHANGED jobVars
    /\ UNCHANGED colVars
    /\ UNCHANGED navVars

UpsertThrow(call) ==
    /\ call \in inflight
    /\ call.caller = "direct"
    /\ call.pc = "failed"
    /\ inflight' = inflight \ {call}
    /\ twice' = Idle
    /\ UNCHANGED <<storeRows, storeCells, nextRowId, rows, cellValues, fetches,
                   nCalls, nFetches>>
    /\ UNCHANGED ledgerVars
    /\ UNCHANGED jobVars
    /\ UNCHANGED colVars
    /\ UNCHANGED navVars

(***************************************************************************)
(* fetchWorkspaceData / refreshData: the rows are read and set; the cells  *)
(* are read batch by batch; after the last batch the accumulated snapshot  *)
(* replaces cellValues.                                                    *)
(***************************************************************************)
WorkspaceIds == {0, 1}

\* the rows of the second workspace; every other row is of the first one
OtherWorkspaceRows == {101}

\* Row.workspace_id
workspace_id(rowId) == IF rowId \in OtherWorkspaceRows THEN 1 ELSE 0

\* select * from rows where workspace_id = workspaceId order by created_at
StoreSelectRows(workspaceId) ==
    SetToSeq({r \in storeRows : workspace_id(r) = workspaceId})

\* what fetchWorkspaceData(workspaceId) keeps between its awaits
Fetch(id, workspaceId) ==
    [id |-> id, workspaceId |-> workspaceId, pc |-> "rows", rws |-> <<>>,
     i |-> 0, cellData |-> <<>>, error |-> FALSE, allCells |-> <<>>]

FetchStart ==
    /\ nFetches < MaxFetches
    /\ nFetches' = nFetches + 1
    /\ fetches' = fetches \cup
          {Fetch(nFetches + 1, activeWorkspaceId)}
    /\ inflight' = Disturbed(inflight)
    /\ twice' = Idle
    /\ UNCHANGED <<storeRows, storeCells, nextRowId, rows, cellValues, nCalls>>
    /\ UNCHANGED ledgerVars
    /\ UNCHANGED jobVars
    /\ UNCHANGED colVars
    /\ UNCHANGED navVars

FetchRows(f) ==
    /\ f \in fetches
    /\ f.pc = "rows"
    /\ LET rws == StoreSelectRows(f.workspaceId) IN
       /\ rows' = rws
       /\ IF Len(rws) > 0
          THEN /\ fetches' = (fetches \ {f}) \cup {[f EXCEPT !.pc = "cells", !.rws = rws]}
               /\ UNCHANGED cellValues
          ELSE /\ fetches' = fetches \ {f}
               /\ cellValues' = <<>>
    /\ twice' = Idle
    /\ UNCHANGED <<storeRows, storeCells, nextRowId, inflight, nCalls, nFetches>>
    /\ UNCHANGED ledgerVars
    /\ UNCHANGED jobVars
    /\ UNCHANGED colVars
    /\ UNCHANGED navVars

\* the store answers the select of one group of rows: cellData is what
\* cell_values holds at that moment
FetchCells(f) ==
    /\ f \in fetches
    /\ f.pc = "cells"
    /\ LET batch == Slice(f.rws, f.i, f.i + FetchBatchSize) IN
       fetches' = (fetches \ {f}) \cup
            {[f EXCEPT !.pc = "resume",
                       !.cellData = FetchedCells(storeCells, SeqToSet(batch))]}
    /\ twice' = Idle
    /\ UNCHANGED <<storeRows, storeCells, nextRowId, rows, cellValues>>
    /\ UNCHANGED <<inflight, nCalls, nFetches>>
    /\ UNCHANGED ledgerVars
    /\ UNCHANGED jobVars
    /\ UNCHANGED colVars
    /\ UNCHANGED navVars

\* the answer reaches fetchWorkspaceData: allCells.push(...cellData), then
\* the next group, or setCellValues(allCells) after the last one
FetchCellsResume(f) ==
    /\ f \in fetches
    /\ f.pc = "resume"
    /\ LET got == f.allCells \o f.cellData
       IN IF f.i + FetchBatchSize < Len(f.rws)
          THEN /\ fetches' = (fetches \ {f}) \cup
                     {[f EXCEPT !.pc = "cells", !.i = f.i + FetchBatchSize,
                                !.cellData = <<>>, !.allCells = got]}
               /\ UNCHANGED cellValues
          ELSE /\ fetches' = fetches \ {f}
               /\ cellValues' = got
    /\ twice' = Idle
    /\ UNCHANGED <<storeRows, storeCells, nextRowId, rows, inflight, nCalls, nFetches>>
    /\ UNCHANGED ledgerVars
    /\ UNCHANGED jobVars
    /\ UNCHANGED colVars
    /\ UNCHANGED navVars

\* rowRes.data is null: (rowRes.data ?? []) empties rows and cell values
FetchRowsError(f) ==
    /\ f \in fetches
    /\ f.pc = "rows"
    /\ rows' = <<>>
    /\ cellValues' = <<>>
    /\ fetches' = fetches \ {f}
    /\ twice' = Idle
    /\ UNCHANGED <<storeRows, storeCells, nextRowId, inflight, nCalls, nFetches>>
    /\ UNCHANGED ledgerVars
    /\ UNCHANGED jobVars
    /\ UNCHANGED colVars
    /\ UNCHANGED navVars

\* cellData is null: if (cellData) pushes nothing for the group
FetchCellsError(f) ==
    /\ f \in fetches
    /\ f.pc = "cells"
    /\ fetches' = (fetches \ {f}) \cup
            {[f EXCEPT !.pc = "resume", !.cellData = <<>>, !.error = TRUE]}
    /\ twice' = Idle
    /\ UNCHANGED <<storeRows, storeCells, nextRowId, rows, cellValues>>
    /\ UNCHANGED <<inflight, nCalls, nFetches>>
    /\ UNCHANGED ledgerVars
    /\ UNCHANGED jobVars
    /\ UNCHANGED colVars
    /\ UNCHANGED navVars

\* refreshData awaited by a handler while nothing else runs: what
\* fetchWorkspaceData leaves in the cache for each outcome of its selects
RefreshOutcomes == {"ok", "rowsError", "cellsError"}

RefreshedRows(outcome) ==
    IF outcome = "rowsError" THEN <<>> ELSE SetToSeq(storeRows)

RefreshedCells(outcome) ==
    IF outcome = "ok" THEN FetchedCells(storeCells, storeRows) ELSE <<>>

NextCache ==
    \/ AddRow
    \/ \E r \in 1..MaxRows, c \in ColumnIds, v \in Values : UpsertCall(r, c, v)
    \/ \E call \in inflight : UpsertStoreOk(call)
    \/ \E call \in inflight : UpsertStoreError(call)
    \/ \E call \in inflight : UpsertReturn(call)
    \/ \E call \in inflight : UpsertThrow(call)
    \/ FetchStart
    \/ \E f \in fetches : FetchRows(f)
    \/ \E f \in fetches : FetchCells(f)
    \/ \E f \in fetches : FetchCellsResume(f)
    \/ \E f \in fetches : FetchRowsError(f)
    \/ \E f \in fetches : FetchCellsError(f)

SpecCache == Init /\ [][NextCache]_vars

(***************************************************************************)
(* C1: the cache never holds two entries with the same (row_id,            *)
(* column_id), whatever the interleaving of upserts and refreshes.         *)
(***************************************************************************)
NoDuplicateKey(cvs) ==
    \A i, j \in 1..Len(cvs) : SameKey(cvs[i], cvs[j].row_id, cvs[j].column_id) => i = j

C1_CacheKeysUnique == NoDuplicateKey(cellValues)

\* an upsert has added its entry to a cache that a refresh had filled
C1_Witness ==
    /\ \E i \in 1..Len(cellValues) : cellValues[i].id = "db"
    /\ \E i \in 1..Len(cellValues) : cellValues[i].id = ""

(***************************************************************************)
(* C3: upsertCellValue(row, column, v) applied twice in succession leaves  *)
(* the cache and the store as one application left them, with exactly one  *)
(* CellValue at (row, column), holding v, in each.                         *)
(***************************************************************************)
ExactlyOneInCache(r, c, v) ==
    /\ Cardinality({i \in 1..Len(cellValues) : SameKey(cellValues[i], r, c)}) = 1
    /\ GridValue(cellValues, r, c) = v

ExactlyOneInStore(r, c, v) ==
    {x \in storeCells : SameKey(x, r, c)} = {StoreCell(r, c, v)}

C3_UpsertIdempotent ==
    /\ twice.phase \in {"first", "both"} =>
          /\ ExactlyOneInCache(twice.rowId, twice.columnId, twice.value)
          /\ ExactlyOneInStore(twice.rowId, twice.columnId, twice.value)
    /\ twice.phase = "both" =>
          /\ cellValues = twice.cache
          /\ storeCells = twice.store

C3_Witness == twice.phase = "both"

(***************************************************************************)
(* The undo / redo ledger of the grid.  Each handler runs up to its await  *)
(* of upsertCellValue in one step and resumes, in a second step, when the  *)
(* call returns or throws.                                                 *)
(***************************************************************************)
EditValues == Values \cup {""}

Entry(r, c, old, new, seq) ==
    [rowId |-> r, columnId |-> c, oldValue |-> old, newValue |-> new, seq |-> seq]

Top(stack) == stack[Len(stack)]

Pop(stack) == SubSeq(stack, 1, Len(stack) - 1)

Held == {x.entry : x \in {y \in inflight : y.caller \in {"undo", "redo"}}}

\* handleCellEditRequest, up to the await
EditRequest(r, c, nv) ==
    LET pre == GridValue(cellValues, r, c)
        oldValue == ToStr(pre)
        newValue == ToStr(nv)
        entry == Entry(r, c, oldValue, newValue, nCalls + 1)
    IN
    /\ nCalls < MaxEdits
    /\ r \in SeqToSet(rows)
    /\ oldValue # newValue
    /\ nCalls' = nCalls + 1
    /\ inflight' = Disturbed(inflight) \cup
          {Call(nCalls + 1, "edit", r, c, newValue, entry, Quiet, undoStack, redoStack)}
    /\ law' = IF Quiet THEN [phase |-> "editing", entry |-> entry, pre |-> pre] ELSE Idle
    /\ lastOutcome' = NoOutcome
    /\ UNCHANGED <<storeRows, storeCells, nextRowId, rows, cellValues, fetches, nFetches, twice>>
    /\ UNCHANGED <<undoStack, redoStack, toast, stale>>
    /\ UNCHANGED jobVars
    /\ UNCHANGED colVars
    /\ UNCHANGED navVars

\* handleCellEditRequest, after the await: the edit is recorded
EditConfirmed(call) ==
    /\ call \in inflight
    /\ call.caller = "edit"
    /\ call.pc = "written"
    /\ cellValues' = CacheUpsert(cellValues, call.rowId, call.columnId, call.value)
    /\ inflight' = inflight \ {call}
    /\ undoStack' = Append(undoStack, call.entry)
    /\ redoStack' = <<>>
    /\ toast' = "Updated"
    /\ law' = IF call.solo /\ law.phase = "editing"
              THEN [law EXCEPT !.phase = "edited"] ELSE Idle
    /\ stale' = stale \cup {e.seq : e \in SeqToSet(redoStack) \cup Held}
    /\ lastOutcome' = NoOutcome
    /\ UNCHANGED <<storeRows, storeCells, nextRowId, rows, fetches, nCalls, nFetches, twice>>
    /\ UNCHANGED jobVars
    /\ UNCHANGED colVars
    /\ UNCHANGED navVars

EditFailedRecorded(call) ==
    /\ call \in inflight
    /\ call.caller = "edit"
    /\ call.pc = "failed"
    /\ inflight' = inflight \ {call}
    /\ undoStack' = Append(undoStack, call.entry)
    /\ redoStack' = <<>>
    /\ toast' = "Failed to save cell"
    /\ law' = Idle
    /\ lastOutcome' = NoOutcome
    /\ UNCHANGED cacheVars_but_inflight
    /\ UNCHANGED stale
    /\ UNCHANGED jobVars
    /\ UNCHANGED colVars
    /\ UNCHANGED navVars

\* handleCellEditRequest, the catch
EditFailed(call) ==
    /\ call \in inflight
    /\ call.caller = "edit"
    /\ call.pc = "failed"
    /\ inflight' = inflight \ {call}
    /\ toast' = "Failed to save cell"
    /\ law' = Idle
    /\ lastOutcome' = NoOutcome
    /\ UNCHANGED cacheVars_but_inflight
    /\ UNCHANGED <<undoStack, redoStack, stale>>
    /\ UNCHANGED jobVars
    /\ UNCHANGED colVars
    /\ UNCHANGED navVars

\* performUndo on an empty stack
UndoNothing ==
    /\ undoStack = <<>>
    /\ toast' = "Nothing to undo"
    /\ UNCHANGED cacheVars
    /\ UNCHANGED <<undoStack, redoStack, law, stale, lastOutcome>>
    /\ UNCHANGED jobVars
    /\ UNCHANGED colVars
    /\ UNCHANGED navVars

\* performUndo, up to the await: the entry is popped
UndoRequest ==
    /\ nCalls < MaxEdits
    /\ undoStack # <<>>
    /\ LET entry == Top(undoStack) IN
       /\ inflight' = Disturbed(inflight) \cup
             {Call(nCalls + 1, "undo", entry.rowId, entry.columnId, entry.oldValue,
                   entry, Quiet, undoStack, redoStack)}
       /\ law' = IF Quiet /\ law.phase = "edited" /\ law.entry = entry
                 THEN [law EXCEPT !.phase = "undoing"] ELSE Idle
    /\ undoStack' = Pop(undoStack)
    /\ nCalls' = nCalls + 1
    /\ lastOutcome' = NoOutcome
    /\ UNCHANGED <<storeRows, storeCells, nextRowId, rows, cellValues, fetches, nFetches, twice>>
    /\ UNCHANGED <<redoStack, toast, stale>>
    /\ UNCHANGED jobVars
    /\ UNCHANGED colVars
    /\ UNCHANGED navVars

UndoDoneOntoUndoStack(call) ==
    /\ call \in inflight
    /\ call.caller = "undo"
    /\ call.pc = "written"
    /\ cellValues' = CacheUpsert(cellValues, call.rowId, call.columnId, call.value)
    /\ inflight' = inflight \ {call}
    /\ undoStack' = Append(undoStack, call.entry)
    /\ toast' = "Undone"
    /\ law' = IF call.solo /\ law.phase = "undoing"
              THEN [law EXCEPT !.phase = "undone"] ELSE Idle
    /\ lastOutcome' = NoOutcome
    /\ UNCHANGED <<storeRows, storeCells, nextRowId, rows, fetches, nCalls, nFetches, twice>>
    /\ UNCHANGED <<redoStack, stale>>
    /\ UNCHANGED jobVars
    /\ UNCHANGED colVars
    /\ UNCHANGED navVars

\* performUndo, after the await
UndoDone(call) ==
    /\ call \in inflight
    /\ call.caller = "undo"
    /\ call.pc = "written"
    /\ cellValues' = CacheUpsert(cellValues, call.rowId, call.columnId, call.value)
    /\ inflight' = inflight \ {call}
    /\ redoStack' = Append(redoStack, call.entry)
    /\ toast' = "Undone"
    /\ law' = IF call.solo /\ law.phase = "undoing"
              THEN [law EXCEPT !.phase = "undone"] ELSE Idle
    /\ lastOutcome' = NoOutcome
    /\ UNCHANGED <<storeRows, storeCells, nextRowId, rows, fetches, nCalls, nFetches, twice>>
    /\ UNCHANGED <<undoStack, stale>>
    /\ UNCHANGED jobVars
    /\ UNCHANGED colVars
    /\ UNCHANGED navVars

Outcome(op, call) ==
    [op |-> op, entry |-> call.entry, solo |-> call.solo,
     undo0 |-> call.undo0, redo0 |-> call.redo0]

UndoFailedDropsEntry(call) ==
    /\ call \in inflight
    /\ call.caller = "undo"
    /\ call.pc = "failed"
    /\ inflight' = inflight \ {call}
    /\ toast' = "Undo failed"
    /\ law' = Idle
    /\ lastOutcome' = Outcome("undo", call)
    /\ UNCHANGED cacheVars_but_inflight
    /\ UNCHANGED <<undoStack, redoStack, stale>>
    /\ UNCHANGED jobVars
    /\ UNCHANGED colVars
    /\ UNCHANGED navVars

\* performUndo, the catch
UndoFailed(call) ==
    /\ call \in inflight
    /\ call.caller = "undo"
    /\ call.pc = "failed"
    /\ inflight' = inflight \ {call}
    /\ undoStack' = Append(undoStack, call.entry)
    /\ toast' = "Undo failed"
    /\ law' = Idle
    /\ lastOutcome' = Outcome("undo", call)
    /\ UNCHANGED cacheVars_but_inflight
    /\ UNCHANGED <<redoStack, stale>>
    /\ UNCHANGED jobVars
    /\ UNCHANGED colVars
    /\ UNCHANGED navVars

\* performRedo on an empty stack
RedoNothing ==
    /\ redoStack = <<>>
    /\ toast' = "Nothing to redo"
    /\ UNCHANGED cacheVars
    /\ UNCHANGED <<undoStack, redoStack, law, stale, lastOutcome>>
    /\ UNCHANGED jobVars
    /\ UNCHANGED colVars
    /\ UNCHANGED navVars

\* performRedo, up to the await: the entry is popped
RedoRequest ==
    /\ nCalls < MaxEdits
    /\ redoStack # <<>>
    /\ LET entry == Top(redoStack) IN
       /\ inflight' = Disturbed(inflight) \cup
             {Call(nCalls + 1, "redo", entry.rowId, entry.columnId, entry.newValue,
                   entry, Quiet, undoStack, redoStack)}
       /\ law' = IF Quiet /\ law.phase = "undone" /\ law.entry = entry
                 THEN [law EXCEPT !.phase = "redoing"] ELSE Idle
    /\ redoStack' = Pop(redoStack)
    /\ nCalls' = nCalls + 1
    /\ lastOutcome' = NoOutcome
    /\ UNCHANGED <<storeRows, storeCells, nextRowId, rows, cellValues, fetches, nFetches, twice>>
    /\ UNCHANGED <<undoStack, toast, stale>>
    /\ UNCHANGED jobVars
    /\ UNCHANGED colVars
    /\ UNCHANGED navVars

\* performRedo, after the await
RedoDone(call) ==
    /\ call \in inflight
    /\ call.caller = "redo"
    /\ call.pc = "written"
    /\ cellValues' = CacheUpsert(cellValues, call.rowId, call.columnId, call.value)
    /\ inflight' = inflight \ {call}
    /\ undoStack' = Append(undoStack, call.entry)
    /\ toast' = "Redone"
    /\ law' = IF call.solo /\ law.phase = "redoing"
              THEN [law EXCEPT !.phase = "redone"] ELSE Idle
    /\ lastOutcome' = NoOutcome
    /\ UNCHANGED <<storeRows, storeCells, nextRowId, rows, fetches, nCalls, nFetches, twice>>
    /\ UNCHANGED <<redoStack, stale>>
    /\ UNCHANGED jobVars
    /\ UNCHANGED colVars
    /\ UNCHANGED navVars

\* performRedo, the catch
RedoFailed(call) ==
    /\ call \in inflight
    /\ call.caller = "redo"
    /\ call.pc = "failed"
    /\ inflight' = inflight \ {call}
    /\ redoStack' = Append(redoStack, call.entry)
    /\ toast' = "Redo failed"
    /\ law' = Idle
    /\ lastOutcome' = Outcome("redo", call)
    /\ UNCHANGED cacheVars_but_inflight
    /\ UNCHANGED <<undoStack, stale>>
    /\ UNCHANGED jobVars
    /\ UNCHANGED colVars
    /\ UNCHANGED navVars

NextLedger ==
    \/ \E r \in SeqToSet(rows), c \in ColumnIds, nv \in EditValues \cup {Undefined} :
          EditRequest(r, c, nv)
    \/ \E call \in inflight : UpsertStoreOk(call)
    \/ \E call \in inflight : UpsertStoreError(call)
    \/ \E call \in inflight : EditConfirmed(call)
    \/ \E call \in inflight : EditFailed(call)
    \/ UndoNothing
    \/ UndoRequest
    \/ \E call \in inflight : UndoDone(call)
    \/ \E call \in inflight : UndoFailed(call)
    \/ RedoNothing
    \/ RedoRequest
    \/ \E call \in inflight : RedoDone(call)
    \/ \E call \in inflight : RedoFailed(call)

SpecLedger == InitGrid /\ [][NextLedger]_vars

(***************************************************************************)
(* C8: an edit from a to b, its undo and its redo, run one after the other *)
(* with every store write succeeding: after the edit the cell holds b and  *)
(* the entry is on top of the undo stack; after the undo the cell holds a  *)
(* and the same entry is on top of the redo stack; after the redo the cell *)
(* holds b and the entry is on top of the undo stack again.  a is the      *)
(* string the edit event read the cell's prior content into.               *)
(***************************************************************************)
CellHolds(r, c, v) ==
    /\ GridValue(cellValues, r, c) = v
    /\ {x \in storeCells : SameKey(x, r, c)} = {StoreCell(r, c, v)}

OnTop(stack, entry) == stack # <<>> /\ Top(stack) = entry

C8_UndoRedoInverse ==
    law.phase \in {"edited", "undone", "redone"} =>
        LET e == law.entry IN
        /\ e.oldValue = ToStr(law.pre)
        /\ e.oldValue # e.newValue
        /\ law.phase = "edited" =>
              CellHolds(e.rowId, e.columnId, e.newValue) /\ OnTop(undoStack, e)
        /\ law.phase = "undone" =>
              CellHolds(e.rowId, e.columnId, e.oldValue) /\ OnTop(redoStack, e)
        /\ law.phase = "redone" =>
              CellHolds(e.rowId, e.columnId, e.newValue) /\ OnTop(undoStack, e)

C8_Witness == law.phase = "redone" /\ law.pre # Undefined

(***************************************************************************)
(* C9: once an edit has been confirmed and persisted, no entry that was    *)
(* outside the undo history at that moment (undone before it, or held by   *)
(* an undo or redo still in flight) is on the redo stack, in every         *)
(* interleaving.                                                           *)
(***************************************************************************)
C9_NoStaleRedo == \A i \in 1..Len(redoStack) : redoStack[i].seq \notin stale

(***************************************************************************)
(* C10: when the upsert of an undo fails, the entry is back on top of the  *)
(* undo stack, occurs once in the ledger, and, with nothing interleaved,   *)
(* both stacks are what they were before the undo; symmetrically for a     *)
(* failed redo and the redo stack.                                         *)
(***************************************************************************)
Occurrences(entry) ==
    Cardinality({i \in 1..Len(undoStack) : undoStack[i] = entry})
    + Cardinality({i \in 1..Len(redoStack) : redoStack[i] = entry})
    + Cardinality({x \in inflight : x.entry = entry})

C10_FailedApplyRestoresEntry ==
    /\ lastOutcome.op = "undo" =>
          /\ OnTop(undoStack, lastOutcome.entry)
          /\ Occurrences(lastOutcome.entry) = 1
          /\ lastOutcome.solo =>
                undoStack = lastOutcome.undo0 /\ redoStack = lastOutcome.redo0
    /\ lastOutcome.op = "redo" =>
          /\ OnTop(redoStack, lastOutcome.entry)
          /\ Occurrences(lastOutcome.entry) = 1
          /\ lastOutcome.solo =>
                undoStack = lastOutcome.undo0 /\ redoStack = lastOutcome.redo0

C10_Witness == lastOutcome.op = "redo" /\ lastOutcome.solo

\* toFieldKey, on the names of the model
toFieldKey(name) ==
    CASE name = "Email" -> "email"
      [] name = "Email Status" -> "email_status"
      [] name = "Email Address" -> "email_address"

\* columns.reduce((max, c) => Math.max(max, c.position), -1)
MaxPos(cols) ==
    IF cols = <<>> THEN -1
    ELSE LET ps == {cols[i].position : i \in 1..Len(cols)} IN
         CHOOSE p \in ps : \A q \in ps : q <= p

\* one call of addColumn, and the log of calls once the last has returned
AddColumnCall(name) == [name |-> name, status |-> "sent"]

Settled(log, status) == [log EXCEPT ![Len(log)].status = status]

(***************************************************************************)
(* Batched runs: RunAiColumnModal.handleRun, VerifyEmailsModal.handleVerify *)
(* and AiColumnModal.runEnrichment.  The rows are cut into groups; every   *)
(* item of a group posts one request to its route, which calls the         *)
(* external service and upserts the result; Promise.all joins the group.   *)
(***************************************************************************)
MaxItems == 6

\* batchSize of handleRun, of handleVerify and of runEnrichment
RunBatchSize == 5
VerifyBatchSize == 5
EnrichBatchSize == 5

\* the column that holds the e-mail address, and the column a run fills
emailCol == 1
targetCol == 2

RunKinds == {"handleRun", "handleVerify", "runEnrichment"}

BatchSizeOf(kind) ==
    CASE kind = "handleRun" -> RunBatchSize
      [] kind = "handleVerify" -> VerifyBatchSize
      [] kind = "runEnrichment" -> EnrichBatchSize

\* a loaded workspace of MaxItems rows, each with an e-mail address
InitRuns ==
    /\ storeRows = 1..MaxItems
    /\ storeCells = {StoreCell(r, emailCol, "a") : r \in 1..MaxItems}
    /\ nextRowId = MaxItems + 1
    /\ rows = [i \in 1..MaxItems |-> i]
    /\ cellValues = [i \in 1..MaxItems |-> CacheCell("db", i, emailCol, "a")]
    /\ inflight = {}
    /\ fetches = {}
    /\ nCalls = 0
    /\ nFetches = 0
    /\ twice = Idle
    /\ InitLedger
    /\ InitNav
    /\ InitJobs
    /\ InitCols

IsBlank(x) == x = Undefined \/ x = ""

getRowsToRunAll(rowCount, skipExisting) == Slice(rows, 0, rowCount)

\* getRowsToRun: the first rowCount grid rows, without the filled ones
getRowsToRun(rowCount, skipExisting) ==
    LET subset == Slice(rows, 0, rowCount)
        Empty(r) == IsBlank(GridValue(cellValues, r, targetCol))
    IN IF skipExisting THEN SelectSeq(subset, Empty) ELSE subset

\* columns.find((c) => c.field_key === fieldKey): its index, 0 when absent
find(cols, fieldKey) ==
    IF \E i \in 1..Len(cols) : cols[i].field_key = fieldKey
    THEN CHOOSE i \in 1..Len(cols) :
            /\ cols[i].field_key = fieldKey
            /\ \A j \in 1..(i - 1) : cols[j].field_key # fieldKey
    ELSE 0

RunModes == {"selected", "top_n"}

\* String.prototype.trim, on the values of the model
trim(s) == IF s = " " THEN "" ELSE s

getRowsToVerifyUntrimmed(runMode, selectedRowIds, rowCount, skipVerified) ==
    LET e == find(columns, "email")
        st == find(columns, "email_status")
        Selected(r) == r \in selectedRowIds
        pool == IF runMode = "selected" THEN SelectSeq(rows, Selected)
                ELSE Slice(rows, 0, rowCount)
        HasEmail(r) == ~IsBlank(GridValue(cellValues, r, columns[e].id))
        Unverified(r) == IsBlank(GridValue(cellValues, r, columns[st].id))
        withEmail == SelectSeq(pool, HasEmail)
    IN IF e = 0 THEN <<>>
       ELSE IF skipVerified /\ st # 0 THEN SelectSeq(withEmail, Unverified)
       ELSE withEmail

\* getRowsToVerify: the pool of the run mode, the rows of it with an
\* address, and of these the rows without a status
getRowsToVerify(runMode, selectedRowIds, rowCount, skipVerified) ==
    LET e == find(columns, "email")
        st == find(columns, "email_status")
        Selected(r) == r \in selectedRowIds
        pool == IF runMode = "selected" THEN SelectSeq(rows, Selected)
                ELSE Slice(rows, 0, rowCount)
        HasEmail(r) ==
            LET email == GridValue(cellValues, r, columns[e].id) IN
            ~IsBlank(email) /\ trim(email) # ""
        Unverified(r) == IsBlank(GridValue(cellValues, r, columns[st].id))
        withEmail == SelectSeq(pool, HasEmail)
    IN IF e = 0 THEN <<>>
       ELSE IF skipVerified /\ st # 0 THEN SelectSeq(withEmail, Unverified)
       ELSE withEmail

\* what the user set in the dialog before the run
RunInput(runMode, selectedRowIds, rowCount, skip) ==
    [runMode |-> runMode, selectedRowIds |-> selectedRowIds,
     rowCount |-> rowCount, skip |-> skip]

NewRun(kind, items, input) ==
    [phase |-> "loop", kind |-> kind, column |-> targetCol, items |-> items,
     total |-> Len(items), i |-> 0, done |-> 0, errors |-> 0,
     running |-> TRUE, input |-> input]

Begin(kind, items, input) ==
    /\ run.phase = "idle"
    /\ items # <<>>
    /\ run' = NewRun(kind, items, input)
    /\ requests' = [k \in 1..Len(items) |-> "pending"]
    /\ progress' = <<0>>
    /\ UNCHANGED <<failed, summary, attempted, submitted>>
    /\ UNCHANGED <<cacheVars, ledgerVars>>
    /\ UNCHANGED colVars
    /\ UNCHANGED navVars

\* handleRun up to the loop: if (!column || rowsToRun.length === 0) return
RunStart(rowCount, skipExisting) ==
    /\ \E i \in 1..Len(columns) : columns[i].id = targetCol
    /\ Begin("handleRun", getRowsToRun(rowCount, skipExisting),
             RunInput("top_n", {}, rowCount, skipExisting))

\* handleVerify up to the loop, or up to the await of addColumn when the
\* workspace has no Email Status column
VerifyStart(runMode, selectedRowIds, rowCount, skipVerified) ==
    LET items == getRowsToVerify(runMode, selectedRowIds, rowCount, skipVerified)
        input == RunInput(runMode, selectedRowIds, rowCount, skipVerified)
    IN IF find(columns, "email_status") # 0
       THEN Begin("handleVerify", items, input)
       ELSE /\ run.phase = "idle"
            /\ items # <<>>
            /\ run' = [NewRun("handleVerify", items, input) EXCEPT !.phase = "adding"]
            /\ colLog' = Append(colLog, AddColumnCall("Email Status"))
            /\ UNCHANGED <<requests, failed, progress, summary, attempted, submitted>>
            /\ UNCHANGED <<storeColumns, columns, nextColId, mapper, dialog>>
            /\ UNCHANGED <<cacheVars, ledgerVars, navVars>>

\* addColumn returns the new column: setProgress({ done: 0, total })
VerifyColumnAdded ==
    /\ run.phase = "adding"
    /\ run.kind = "handleVerify"
    /\ LET col == Column(nextColId, "Email Status", toFieldKey("Email Status"),
                         MaxPos(columns) + 1, FALSE)
       IN /\ storeColumns' = storeColumns \cup {col}
          /\ nextColId' = nextColId + 1
          /\ columns' = Append(columns, col)
          /\ run' = [run EXCEPT !.phase = "loop", !.column = col.id]
    /\ colLog' = Settled(colLog, "ok")
    /\ requests' = [k \in 1..run.total |-> "pending"]
    /\ progress' = <<0>>
    /\ UNCHANGED <<failed, summary, attempted, submitted>>
    /\ UNCHANGED <<mapper, dialog>>
    /\ UNCHANGED <<cacheVars, ledgerVars>>
    /\ UNCHANGED navVars

VerifyNoStatusColumnGoesOn ==
    /\ run.phase = "adding"
    /\ run.kind = "handleVerify"
    /\ run' = [run EXCEPT !.phase = "loop"]
    /\ colLog' = Settled(colLog, "null")
    /\ requests' = [k \in 1..run.total |-> "pending"]
    /\ progress' = <<0>>
    /\ UNCHANGED <<failed, summary, attempted, submitted>>
    /\ UNCHANGED <<storeColumns, columns, nextColId, mapper, dialog>>
    /\ UNCHANGED <<cacheVars, ledgerVars>>
    /\ UNCHANGED navVars

\* addColumn returns null: toast, setRunning(false), return
VerifyNoStatusColumn ==
    /\ run.phase = "adding"
    /\ run.kind = "handleVerify"
    /\ run' = [phase |-> "aborted", kind |-> "handleVerify", running |-> FALSE]
    /\ colLog' = Settled(colLog, "null")
    /\ summary' = [type |-> "error", text |-> "Failed to create Email Status column"]
    /\ UNCHANGED <<requests, failed, progress, attempted, submitted>>
    /\ UNCHANGED <<storeColumns, columns, nextColId, mapper, dialog>>
    /\ UNCHANGED <<cacheVars, ledgerVars>>
    /\ UNCHANGED navVars

EnrichStart == Begin("runEnrichment", rows, RunInput("top_n", {}, Len(rows), FALSE))

\* the indices of the group that starts at run.i
Batch ==
    {k \in 1..run.total : run.i < k /\ k <= run.i + BatchSizeOf(run.kind)}

\* batch.map(async row => ...): every item of the group posts its request
GroupStart ==
    /\ run.phase = "loop"
    /\ run.i < run.total
    /\ requests' = [k \in 1..run.total |->
                        IF k \in Batch THEN "sent" ELSE requests[k]]
    /\ attempted' = attempted \cup Batch
    /\ run' = [run EXCEPT !.phase = "join"]
    /\ UNCHANGED <<failed, progress, summary, submitted>>
    /\ UNCHANGED <<cacheVars, ledgerVars>>
    /\ UNCHANGED colVars
    /\ UNCHANGED navVars

(***************************************************************************)
(* One request: the route validates the body, calls the external service   *)
(* and upserts the result; it answers 200 only after the upsert went       *)
(* through.  A request may also never reach the route.                     *)
(***************************************************************************)
Answer(k, status) ==
    /\ run.phase = "join"
    /\ requests[k] = "sent"
    /\ requests' = [requests EXCEPT ![k] = status]
    /\ failed' = IF status = "200" THEN failed ELSE failed \cup {k}
    /\ UNCHANGED <<run, progress, summary, attempted, submitted>>
    /\ UNCHANGED <<storeRows, nextRowId, rows, cellValues, inflight, fetches,
                   nCalls, nFetches, twice>>
    /\ UNCHANGED ledgerVars
    /\ UNCHANGED colVars
    /\ UNCHANGED navVars

\* the external call answers and the upsert succeeds
RouteOk(k, v) ==
    /\ Answer(k, "200")
    /\ storeCells' = StoreUpsert(storeCells, run.items[k], run.column, v)
    /\ UNCHANGED colVars
    /\ UNCHANGED navVars

\* a required field of the body is missing
RouteInvalid(k) == Answer(k, "400") /\ UNCHANGED storeCells

\* the external call throws, or answers with an error
RouteExternalFails(k) == Answer(k, "500") /\ UNCHANGED storeCells

\* the upsert returns an error
RouteStoreFails(k) == Answer(k, "500") /\ UNCHANGED storeCells

\* fetch rejects: the request does not reach the route
FetchRejects(k) == Answer(k, "rejected") /\ UNCHANGED storeCells

CountsErrors(kind) == kind \in {"handleRun", "handleVerify"}

ItemSettleUncounted(k) ==
    /\ run.phase = "join"
    /\ requests[k] \in {"200", "400", "500", "rejected"}
    /\ requests' = [requests EXCEPT ![k] = "settled"]
    /\ UNCHANGED <<run, failed, progress, summary, attempted, submitted>>
    /\ UNCHANGED <<cacheVars, ledgerVars>>
    /\ UNCHANGED colVars
    /\ UNCHANGED navVars

\* the item's promise settles: if (!res.ok) throw; catch { errors++ }
ItemSettle(k) ==
    /\ run.phase = "join"
    /\ requests[k] \in {"200", "400", "500", "rejected"}
    /\ requests' = [requests EXCEPT ![k] = "settled"]
    /\ run' = IF requests[k] # "200" /\ CountsErrors(run.kind)
              THEN [run EXCEPT !.errors = @ + 1]
              ELSE run
    /\ UNCHANGED <<failed, progress, summary, attempted, submitted>>
    /\ UNCHANGED <<cacheVars, ledgerVars>>
    /\ UNCHANGED colVars
    /\ UNCHANGED navVars

Joined(done) ==
    /\ run' = [run EXCEPT !.phase = "loop", !.done = done,
                          !.i = @ + BatchSizeOf(run.kind)]
    /\ progress' = Append(progress, Min(done, run.total))
    /\ UNCHANGED <<requests, failed, summary, attempted, submitted>>
    /\ UNCHANGED <<cacheVars, ledgerVars>>
    /\ UNCHANGED colVars
    /\ UNCHANGED navVars

GroupJoinOnFirst ==
    /\ run.phase = "join"
    /\ \E k \in Batch : requests[k] = "settled"
    /\ Joined(run.done + Cardinality(Batch))

\* await Promise.all(promises); done += batch.length; setProgress(...)
GroupJoin ==
    /\ run.phase = "join"
    /\ \A k \in Batch : requests[k] = "settled"
    /\ Joined(run.done + Cardinality(Batch))

RunSummary ==
    IF CountsErrors(run.kind) /\ run.errors > 0
    THEN [type |-> "info", succeeded |-> run.total - run.errors,
          failed |-> run.errors]
    ELSE [type |-> "success", succeeded |-> run.total, failed |-> 0]

\* await refreshData(); toast(...)
RunEnd(outcome) ==
    /\ run.phase = "loop"
    /\ run.kind \in RunKinds
    /\ run.i >= run.total
    /\ rows' = RefreshedRows(outcome)
    /\ cellValues' = RefreshedCells(outcome)
    /\ summary' = RunSummary
    /\ run' = [run EXCEPT !.phase = "ended", !.running = FALSE]
    /\ UNCHANGED <<requests, failed, progress, attempted, submitted>>
    /\ UNCHANGED <<storeRows, storeCells, nextRowId, inflight, fetches,
                   nCalls, nFetches, twice>>
    /\ UNCHANGED ledgerVars
    /\ UNCHANGED colVars
    /\ UNCHANGED navVars

NextRuns ==
    \/ \E n \in 1..MaxItems, skip \in BOOLEAN : RunStart(n, skip)
    \/ \E n \in 1..MaxItems, skip \in BOOLEAN : VerifyStart("top_n", {}, n, skip)
    \/ EnrichStart
    \/ GroupStart
    \/ \E k \in DOMAIN requests, v \in Values : RouteOk(k, v)
    \/ \E k \in DOMAIN requests : RouteInvalid(k)
    \/ \E k \in DOMAIN requests : RouteExternalFails(k)
    \/ \E k \in DOMAIN requests : RouteStoreFails(k)
    \/ \E k \in DOMAIN requests : FetchRejects(k)
    \/ \E k \in DOMAIN requests : ItemSettle(k)
    \/ GroupJoin
    \/ \E outcome \in RefreshOutcomes : RunEnd(outcome)

SpecRuns == InitRuns /\ [][NextRuns]_vars

(***************************************************************************)
(* C5: when an enrichment run (handleRun) or a verification run            *)
(* (handleVerify) over N rows ends, with F the items whose request failed  *)
(* (the external call failed, the route answered non-OK, or the store      *)
(* write failed), the summary reports N - |F| succeeded and |F| failed,    *)
(* and the store holds a value in the run's column for exactly the rows    *)
(* of the items outside F.                                                 *)
(***************************************************************************)
Written == {x.row_id : x \in {y \in storeCells : y.column_id = run.column}}

Started(k) == requests[k] # "pending"

Completed(k) == requests[k] = "settled"

GroupOf(k) == (k - 1) \div BatchSizeOf(run.kind)

InFlight == {k \in DOMAIN requests : Started(k) /\ ~Completed(k)}

C7_GroupsAreSequential ==
    (run.phase \in {"loop", "join", "ended"} /\ run.kind \in RunKinds) =>
        /\ \A k, j \in DOMAIN requests :
              (Started(k) /\ GroupOf(j) < GroupOf(k)) => Completed(j)
        /\ \A k, j \in DOMAIN requests :
              (Started(k) /\ GroupOf(j) = GroupOf(k)) => Started(j)
        /\ Cardinality(InFlight) <= BatchSizeOf(run.kind)

\* the second group is in flight
C7_Witness ==
    /\ run.phase = "join"
    /\ run.kind \in RunKinds
    /\ run.i > 0
    /\ InFlight # {}

(***************************************************************************)
(* Batched imports: CsvUploadModal.handleImport ("csv"), the contact-list  *)
(* import handleApolloImport / NewTableModal.handleImport ("contacts") and *)
(* the provider's bulkInsertRows.  Every group of source rows is written   *)
(* with one insert into rows followed by one insert into cell_values.      *)
(***************************************************************************)
MaxImportRows == 51

\* batchSize of the CSV import, of the contact-list import, of bulkInsertRows
CsvBatchSize == 50
ContactBatchSize == 50
BulkBatchSize == 50

ImportKinds == {"csv", "contacts", "bulkInsertRows"}

ImportBatchSizeOf(kind) ==
    CASE kind = "csv" -> CsvBatchSize
      [] kind = "contacts" -> ContactBatchSize
      [] kind = "bulkInsertRows" -> BulkBatchSize

\* the source fields of the file or list, in the order of the mapping step
csvHeaders == <<"Email", "Email Address">>

\* one row of the mapping step: a source field and the target chosen for it
Mapping(h, target, id) == [csvHeader |-> h, target |-> target, id |-> id]

Targets ==
    {[target |-> "__skip__", id |-> 0], [target |-> "__create__", id |-> 0]}
        \cup {[target |-> "column", id |-> c] : c \in ColumnIds}

\* every mapping the mapping step lets the user confirm
Mappings ==
    {[i \in 1..Len(csvHeaders) |-> Mapping(csvHeaders[i], t[i].target, t[i].id)] :
        t \in [1..Len(csvHeaders) -> Targets]}

\* the source rows: each holds a value, '' or nothing for every source field
SourceRows == [SeqToSet(csvHeaders) -> {"a", "", Undefined}]

\* mappings.filter((m) => m.target !== '__skip__')
IsActive(m) == m.target # "__skip__"

activeMappings(mappings) == SelectSeq(mappings, IsActive)

\* the loop over activeMappings up to its next await: the mappings to an
\* existing column are entered in columnMap (as Object.entries lists it:
\* <<source field, column id>> pairs in insertion order), and the loop stops
\* at the first mapping that has to create its column
RECURSIVE Resolve(_, _)
Resolve(columnMap, pending) ==
    IF pending = <<>> \/ Head(pending).target = "__create__"
    THEN [columnMap |-> columnMap, pending |-> pending]
    ELSE Resolve(Append(columnMap, [csvHeader |-> Head(pending).csvHeader,
                                    columnId |-> Head(pending).id]),
                 Tail(pending))

\* one addColumn call, as the history keeps it
\* the handler goes on after an addColumn: the next call, or the loop
Resolved(r, res, log) ==
    /\ run' = [r EXCEPT !.phase = IF res.pending = <<>> THEN "loop" ELSE "adding",
                        !.columnMap = res.columnMap,
                        !.pending = res.pending]
    /\ colLog' = IF res.pending = <<>> THEN log
                 ELSE Append(log, AddColumnCall(Head(res.pending).csvHeader))

\* the cellInserts of one new row
RECURSIVE RowCellInserts(_, _, _, _)
RowCellInserts(rowId, csvRow, columnMap, j) ==
    IF j > Len(columnMap) THEN <<>>
    ELSE LET val == csvRow[columnMap[j].csvHeader]
             rest == RowCellInserts(rowId, csvRow, columnMap, j + 1)
         IN IF val # Undefined /\ val # ""
            THEN <<StoreCell(rowId, columnMap[j].columnId, val)>> \o rest
            ELSE rest

\* csvData: the odd source rows hold csvRow, the even ones hold a value
\* exactly where csvRow holds none
Complement(csvRow) ==
    [h \in DOMAIN csvRow |-> IF csvRow[h] \in {"", Undefined} THEN "b" ELSE ""]

csvData(csvRow, total) ==
    [k \in 1..total |-> IF k % 2 = 1 THEN csvRow ELSE Complement(csvRow)]

RECURSIVE CellInsertsOfFirstRecord(_, _, _)
CellInsertsOfFirstRecord(newRows, batch, columnMap) ==
    IF newRows = <<>> THEN <<>>
    ELSE RowCellInserts(Head(newRows), Head(batch), columnMap, 1)
            \o CellInsertsOfFirstRecord(Tail(newRows), batch, columnMap)

\* newRows.forEach((row, idx) => { const csvRow = batch[idx]; ... })
RECURSIVE CellInserts(_, _, _)
CellInserts(newRows, batch, columnMap) ==
    IF newRows = <<>> THEN <<>>
    ELSE RowCellInserts(Head(newRows), Head(batch), columnMap, 1)
            \o CellInserts(Tail(newRows), Tail(batch), columnMap)

\* insert into cell_values: the unique key rejects the whole statement when
\* two of its records, or one of them and a stored record, share a key
InsertConflicts(cells, payload) ==
    \/ \E a, b \in 1..Len(payload) :
          a # b /\ SameKey(payload[a], payload[b].row_id, payload[b].column_id)
    \/ \E a \in 1..Len(payload), x \in cells :
          SameKey(x, payload[a].row_id, payload[a].column_id)

ImportSizes == {n \in 1..MaxImportRows : n = 1 \/ n >= CsvBatchSize}

ReportsProgress(kind) == kind \in {"csv", "contacts"}

\* the handler up to its first await: setProgress(0) and the start of the
\* columnMap; bulkInsertRows is handed a columnMap of existing columns
ImportStart(kind, n, mappings, csvRow) ==
    /\ run.phase = "idle"
    /\ kind = "bulkInsertRows" =>
          \A i \in 1..Len(mappings) : mappings[i].target # "__create__"
    /\ Resolved([phase |-> "adding", kind |-> kind, total |-> n, i |-> 0,
                 done |-> 0, csvRow |-> csvRow, newRows |-> <<>>,
                 mappings |-> mappings, addColumn |-> columns,
                 columnMap |-> <<>>, pending |-> <<>>],
                Resolve(<<>>, activeMappings(mappings)), colLog)
    /\ progress' = IF ReportsProgress(kind) THEN <<0>> ELSE <<>>
    /\ UNCHANGED <<requests, failed, summary, attempted, submitted>>
    /\ UNCHANGED <<storeColumns, columns, nextColId, mapper, dialog>>
    /\ UNCHANGED <<cacheVars, ledgerVars>>
    /\ UNCHANGED navVars

ColumnAddedTwice ==
    /\ run.phase = "adding"
    /\ LET name == Head(run.pending).csvHeader
           col == Column(nextColId, name, toFieldKey(name),
                         MaxPos(run.addColumn) + 1, FALSE)
       IN /\ storeColumns' = storeColumns \cup {col}
          /\ nextColId' = nextColId + 1
          /\ columns' = Append(columns, col)
          /\ Resolved(run,
                      Resolve(Append(run.columnMap,
                                     [csvHeader |-> name, columnId |-> col.id]),
                              run.pending),
                      Settled(colLog, "ok"))
    /\ UNCHANGED <<requests, failed, progress, summary, attempted, submitted>>
    /\ UNCHANGED <<mapper, dialog>>
    /\ UNCHANGED <<cacheVars, ledgerVars>>
    /\ UNCHANGED navVars

\* addColumn returns the new column: the store has inserted it at the
\* position after the greatest one of the columns the handler was rendered
\* with, setColumns appends it, and the handler enters its id in columnMap
ColumnAdded ==
    /\ run.phase = "adding"
    /\ LET name == Head(run.pending).csvHeader
           col == Column(nextColId, name, toFieldKey(name),
                         MaxPos(run.addColumn) + 1, FALSE)
       IN /\ storeColumns' = storeColumns \cup {col}
          /\ nextColId' = nextColId + 1
          /\ columns' = Append(columns, col)
          /\ Resolved(run,
                      Resolve(Append(run.columnMap,
                                     [csvHeader |-> name, columnId |-> col.id]),
                              Tail(run.pending)),
                      Settled(colLog, "ok"))
    /\ UNCHANGED <<requests, failed, progress, summary, attempted, submitted>>
    /\ UNCHANGED <<mapper, dialog>>
    /\ UNCHANGED <<cacheVars, ledgerVars>>
    /\ UNCHANGED navVars

\* addColumn returns null: the source field gets no entry in columnMap
ColumnNotAdded ==
    /\ run.phase = "adding"
    /\ Resolved(run, Resolve(run.columnMap, Tail(run.pending)),
                Settled(colLog, "null"))
    /\ UNCHANGED <<requests, failed, progress, summary, attempted, submitted>>
    /\ UNCHANGED <<storeColumns, columns, nextColId, mapper, dialog>>
    /\ UNCHANGED <<cacheVars, ledgerVars>>
    /\ UNCHANGED navVars

\* the source rows of the group that starts at run.i
ImportBatch ==
    {k \in 1..run.total : run.i < k /\ k <= run.i + ImportBatchSizeOf(run.kind)}

\* the insert into rows of the next group is sent
ImportGroup ==
    /\ run.phase = "loop"
    /\ run.kind \in ImportKinds
    /\ run.i < run.total
    /\ run' = [run EXCEPT !.phase = "rows"]
    /\ attempted' = attempted \cup ImportBatch
    /\ UNCHANGED <<requests, failed, progress, summary, submitted>>
    /\ UNCHANGED <<cacheVars, ledgerVars>>
    /\ UNCHANGED colVars
    /\ UNCHANGED navVars

\* the end of a loop round: the progress report and i += batchSize
Advance(r) ==
    LET done == r.done + Cardinality(ImportBatch) IN
    /\ run' = [r EXCEPT !.phase = "loop", !.done = done,
                        !.i = @ + ImportBatchSizeOf(r.kind)]
    /\ progress' = IF ReportsProgress(r.kind)
                   THEN Append(progress, Min(done, r.total))
                   ELSE progress
    /\ UNCHANGED colVars
    /\ UNCHANGED navVars

\* the rows are inserted; the handler builds cellInserts and, unless it is
\* empty, sends the insert into cell_values
RowsInserted ==
    /\ run.phase = "rows"
    /\ LET len == Cardinality(ImportBatch)
           newRows == [j \in 1..len |-> nextRowId + j - 1]
           batch == Slice(csvData(run.csvRow, run.total), run.i,
                          run.i + ImportBatchSizeOf(run.kind))
           cellInserts == CellInserts(newRows, batch, run.columnMap)
       IN /\ storeRows' = storeRows \cup SeqToSet(newRows)
          /\ nextRowId' = nextRowId + len
          /\ IF cellInserts # <<>>
             THEN /\ submitted' = cellInserts
                  /\ run' = [run EXCEPT !.phase = "cells", !.newRows = newRows]
                  /\ UNCHANGED progress
             ELSE /\ Advance([run EXCEPT !.newRows = newRows])
                  /\ UNCHANGED submitted
    /\ UNCHANGED <<requests, failed, summary, attempted>>
    /\ UNCHANGED <<storeCells, rows, cellValues, inflight, fetches, nCalls,
                   nFetches, twice>>
    /\ UNCHANGED ledgerVars
    /\ UNCHANGED colVars
    /\ UNCHANGED navVars

\* the insert into rows fails: the CSV import toasts and breaks out of its
\* loop, the contact-list import throws into its catch, bulkInsertRows
\* continues with the next group
RowsRejected ==
    /\ run.phase = "rows"
    /\ CASE run.kind = "csv" ->
                /\ run' = [run EXCEPT !.phase = "broke"]
                /\ summary' = [type |-> "error", text |-> "Error inserting rows"]
          [] run.kind = "contacts" ->
                /\ run' = [run EXCEPT !.phase = "ended"]
                /\ summary' = [type |-> "error", text |-> "Import failed"]
          [] run.kind = "bulkInsertRows" ->
                /\ run' = [run EXCEPT !.phase = "loop",
                                      !.i = @ + ImportBatchSizeOf(run.kind)]
                /\ UNCHANGED summary
    /\ failed' = failed \cup ImportBatch
    /\ UNCHANGED <<requests, progress, attempted, submitted>>
    /\ UNCHANGED <<cacheVars, ledgerVars>>
    /\ UNCHANGED colVars
    /\ UNCHANGED navVars

\* the insert into cell_values goes through
CellsInserted ==
    /\ run.phase = "cells"
    /\ ~InsertConflicts(storeCells, submitted)
    /\ storeCells' = storeCells \cup SeqToSet(submitted)
    /\ Advance(run)
    /\ UNCHANGED <<requests, failed, summary, attempted, submitted>>
    /\ UNCHANGED <<storeRows, nextRowId, rows, cellValues, inflight, fetches,
                   nCalls, nFetches, twice>>
    /\ UNCHANGED ledgerVars
    /\ UNCHANGED colVars
    /\ UNCHANGED navVars

\* the insert into cell_values fails: the CSV import and bulkInsertRows do
\* not look at the result, the contact-list import throws into its catch
CellsRejected ==
    /\ run.phase = "cells"
    /\ IF run.kind = "contacts"
       THEN /\ run' = [run EXCEPT !.phase = "ended"]
            /\ summary' = [type |-> "error", text |-> "Import failed"]
            /\ UNCHANGED progress
       ELSE /\ Advance(run)
            /\ UNCHANGED summary
    /\ failed' = failed \cup ImportBatch
    /\ UNCHANGED <<requests, attempted, submitted>>
    /\ UNCHANGED <<cacheVars, ledgerVars>>
    /\ UNCHANGED colVars
    /\ UNCHANGED navVars

\* after the loop: the refresh, and the toast of the importing handlers
ImportEnd(outcome) ==
    /\ run.phase = "broke" \/ (run.phase = "loop" /\ run.i >= run.total)
    /\ run.kind \in ImportKinds
    /\ rows' = RefreshedRows(outcome)
    /\ cellValues' = RefreshedCells(outcome)
    /\ summary' = IF ReportsProgress(run.kind)
                  THEN [type |-> "success", text |-> "Imported", count |-> run.total]
                  ELSE summary
    /\ run' = [run EXCEPT !.phase = "ended"]
    /\ UNCHANGED <<requests, failed, progress, attempted, submitted>>
    /\ UNCHANGED <<storeRows, storeCells, nextRowId, inflight, fetches,
                   nCalls, nFetches, twice>>
    /\ UNCHANGED ledgerVars
    /\ UNCHANGED colVars
    /\ UNCHANGED navVars

NextImport ==
    \/ \E kind \in ImportKinds, n \in ImportSizes, mappings \in Mappings,
          csvRow \in SourceRows :
            ImportStart(kind, n, mappings, csvRow)
    \/ ColumnAdded
    \/ ColumnNotAdded
    \/ ImportGroup
    \/ RowsInserted
    \/ RowsRejected
    \/ CellsInserted
    \/ CellsRejected
    \/ \E outcome \in RefreshOutcomes : ImportEnd(outcome)

SpecImport == Init /\ [][NextImport]_vars

(***************************************************************************)
(* C2: the store holds at most one CellValue per (row, column), and no     *)
(* operation submits two CellValues for the same (row, column) in one      *)
(* write, whatever mapping the user confirmed.                             *)
(***************************************************************************)
StoreKeysUnique ==
    \A x, y \in storeCells : SameKey(x, y.row_id, y.column_id) => x = y

C2_OneCellPerKey == StoreKeysUnique /\ NoDuplicateKey(submitted)

(***************************************************************************)
(* C4: in a batched run over N items the reported done values never        *)
(* decrease and never exceed N, each report adds min(batchSize, remaining) *)
(* to the one before it, and the last report before the run ends is N.     *)
(***************************************************************************)
SizeOfGroups(kind) ==
    IF kind \in RunKinds THEN BatchSizeOf(kind) ELSE ImportBatchSizeOf(kind)

Reports(kind) == kind \in RunKinds \/ ReportsProgress(kind)

C4_ProgressReachesTotal ==
    (run.phase \in {"loop", "join", "rows", "cells", "broke", "ended"}
        /\ Reports(run.kind)) =>
        /\ \A j \in 1..Len(progress) : progress[j] <= run.total
        /\ \A j \in 1..(Len(progress) - 1) :
              /\ progress[j] <= progress[j + 1]
              /\ progress[j + 1] - progress[j]
                    = Min(SizeOfGroups(run.kind), run.total - progress[j])
        /\ run.phase = "ended" => progress[Len(progress)] = run.total

(***************************************************************************)
(* C6: when a batched operation ends, every one of its N items has been    *)
(* attempted, whatever failed on the way.                                  *)
(***************************************************************************)
C6_AllItemsAttempted ==
    run.phase = "ended" => attempted = 1..run.total

(***************************************************************************)
(* C11: undo and redo take effect serially, in the order they were issued, *)
(* relative to each other and to confirmed edits.  While an undo or redo   *)
(* is suspended at its store write, no request issued after it has taken   *)
(* effect: no edit issued later is recorded in the ledger, and no entry    *)
(* that lay under the popped one has been moved to the other stack (the    *)
(* LIFO order of the entries).                                             *)
(***************************************************************************)
Recorded == SeqToSet(undoStack) \cup SeqToSet(redoStack)

Suspended == {x \in inflight : x.caller \in {"undo", "redo"}}

C11_SerialEffect ==
    \A x \in Suspended :
        /\ \A e \in Recorded : e.seq < x.id
        /\ x.caller = "undo" =>
              SeqToSet(redoStack) \cap (SeqToSet(x.undo0) \ {x.entry}) = {}
        /\ x.caller = "redo" =>
              SeqToSet(undoStack) \cap (SeqToSet(x.redo0) \ {x.entry}) = {}

(***************************************************************************)
(* The fuzzy column mapper: findBestMatch of the CSV mapping step and the  *)
(* auto-mapping of the contact-list mapping step.  A string is a sequence  *)
(* of characters.                                                          *)
(***************************************************************************)
MaxLabelLen == 2
MaxNameLen == 2

\* the characters of the labels and names fed to the mapper
LabelChars == {"E", "e", "m", "-"}

MapColumnCounts == {0, 1, 2}

RECURSIVE Strings(_)
Strings(n) ==
    IF n = 0 THEN {<<>>}
    ELSE LET shorter == Strings(n - 1) IN
         shorter \cup {Append(s, ch) : s \in shorter, ch \in LabelChars}

\* String.prototype.toLowerCase, on the characters above
LowerCaseChar(ch) ==
    CASE ch = "E" -> "e"
      [] ch = "M" -> "m"
      [] OTHER -> ch

toLowerCase(s) == [i \in 1..Len(s) |-> LowerCaseChar(s[i])]

\* the characters /[^a-z0-9]/ does not match
IsLowerAlnum(ch) == ch \in {"e", "m", "0", "1"}

\* s.toLowerCase().replace(/[^a-z0-9]/g, '')
Normalize(s) == SelectSeq(toLowerCase(s), IsLowerAlnum)

\* String.prototype.includes
includes(hay, needle) ==
    \E i \in 0..(Len(hay) - Len(needle)) :
        SubSeq(hay, i + 1, i + Len(needle)) = needle

CreateNew == [target |-> "__create__", id |-> 0]

ColumnTarget(id) == [target |-> "column", id |-> id]

RECURSIVE findBestMatchExactOnly(_, _)
findBestMatchExactOnly(csvHeader, cols) ==
    IF cols = <<>> THEN CreateNew
    ELSE IF Normalize(Head(cols).name) = Normalize(csvHeader)
         THEN ColumnTarget(Head(cols).id)
         ELSE findBestMatchExactOnly(csvHeader, Tail(cols))

\* findBestMatch of CsvUploadModal: for (const col of columns) { ... }
RECURSIVE findBestMatch(_, _)
findBestMatch(csvHeader, cols) ==
    IF cols = <<>> THEN CreateNew
    ELSE LET normalized == Normalize(csvHeader)
             colNorm == Normalize(Head(cols).name)
         IN IF colNorm = normalized THEN ColumnTarget(Head(cols).id)
            ELSE IF includes(colNorm, normalized) \/ includes(normalized, colNorm)
                 THEN ColumnTarget(Head(cols).id)
                 ELSE findBestMatch(csvHeader, Tail(cols))

\* the loop of autoMappings in the contact-list mapping step: the target
\* starts at __create__ and the first qualifying column breaks the loop
RECURSIVE autoMappingTarget(_, _, _)
autoMappingTarget(label, cols, i) ==
    IF i > Len(cols) THEN CreateNew
    ELSE LET normalized == Normalize(label)
             colNorm == Normalize(cols[i].name)
         IN IF colNorm = normalized \/ includes(colNorm, normalized)
                  \/ includes(normalized, colNorm)
            THEN ColumnTarget(cols[i].id)
            ELSE autoMappingTarget(label, cols, i + 1)

\* the column lists of the mapping step: ids in list order, names drawn
MapColumns ==
    UNION {[1..n -> Strings(MaxNameLen)] : n \in MapColumnCounts}

NamedColumns(names) == [i \in 1..Len(names) |-> [id |-> i, name |-> names[i]]]

InitMapper ==
    /\ InitCache
    /\ InitLedger
    /\ InitNav
    /\ InitJobs
    /\ storeColumns = SeqToSet(DefaultColumnDefs)
    /\ columns = DefaultColumnDefs
    /\ nextColId = Len(DefaultColumnDefs) + 1
    /\ dialog = NoDialog
    /\ colLog = <<>>
    /\ \E label \in Strings(MaxLabelLen), names \in MapColumns :
          mapper = [phase |-> "mapping", label |-> label,
                    cols |-> NamedColumns(names),
                    csv |-> <<>>, contacts |-> <<>>]

\* the CSV mapping step fills in the target of the header
CsvAutoMap ==
    /\ mapper.phase = "mapping"
    /\ mapper.csv = <<>>
    /\ mapper' = [mapper EXCEPT !.csv = <<findBestMatch(mapper.label, mapper.cols)>>]
    /\ UNCHANGED <<storeColumns, columns, nextColId, dialog, colLog>>
    /\ UNCHANGED <<cacheVars, ledgerVars, jobVars>>
    /\ UNCHANGED navVars

\* the contact-list mapping step fills in the target of the field label
ContactAutoMap ==
    /\ mapper.phase = "mapping"
    /\ mapper.contacts = <<>>
    /\ mapper' = [mapper EXCEPT
                    !.contacts = <<autoMappingTarget(mapper.label, mapper.cols, 1)>>]
    /\ UNCHANGED <<storeColumns, columns, nextColId, dialog, colLog>>
    /\ UNCHANGED <<cacheVars, ledgerVars, jobVars>>
    /\ UNCHANGED navVars

NextMapper == CsvAutoMap \/ ContactAutoMap

SpecMapper == InitMapper /\ [][NextMapper]_vars

(***************************************************************************)
(* C12: for every label L and ordered column list Cs both mappers return   *)
(* the id of the first column of Cs whose normalized name equals,          *)
(* contains or is contained in the normalized L, and 'create new' when no  *)
(* column qualifies; the CSV mapper and the contact-list mapper agree.     *)
(***************************************************************************)
Qualifies(label, col) ==
    LET l == Normalize(label)
        n == Normalize(col.name)
    IN n = l \/ includes(n, l) \/ includes(l, n)

FirstQualifying(label, cols) ==
    LET hits == {i \in 1..Len(cols) : Qualifies(label, cols[i])} IN
    IF hits = {} THEN CreateNew
    ELSE ColumnTarget(cols[CHOOSE i \in hits : \A j \in hits : i <= j].id)

C12_MapperFirstMatch ==
    mapper.phase = "mapping" =>
        /\ mapper.csv # <<>> =>
              mapper.csv[1] = FirstQualifying(mapper.label, mapper.cols)
        /\ mapper.contacts # <<>> =>
              mapper.contacts[1] = FirstQualifying(mapper.label, mapper.cols)
        /\ (mapper.csv # <<>> /\ mapper.contacts # <<>>) =>
              mapper.csv = mapper.contacts

\* both mappers chose the second column, by containment and not by equality
C12_Witness ==
    /\ mapper.phase = "mapping"
    /\ mapper.csv # <<>>
    /\ mapper.csv = mapper.contacts
    /\ mapper.csv[1] = ColumnTarget(2)
    /\ Normalize(mapper.cols[2].name) # Normalize(mapper.label)

(***************************************************************************)
(* C13: in an import every source field mapped to 'create new' causes      *)
(* exactly one addColumn call and no other field causes any; all these     *)
(* calls have completed before the first insert into rows or cell_values;  *)
(* the number of columns created is bounded by the number of such fields,  *)
(* whatever the number of imported rows.                                   *)
(***************************************************************************)
IsCreate(m) == m.target = "__create__"

CreateFields(mappings) ==
    LET cs == SelectSeq(mappings, IsCreate) IN
    [i \in 1..Len(cs) |-> cs[i].csvHeader]

Called == [i \in 1..Len(colLog) |-> colLog[i].name]

C13_ColumnsResolvedOnce ==
    (run.phase \in {"adding", "loop", "rows", "cells", "broke", "ended"}
        /\ run.kind \in ImportKinds) =>
        LET creates == CreateFields(run.mappings) IN
        /\ Len(Called) <= Len(creates)
        /\ Called = SubSeq(creates, 1, Len(Called))
        /\ run.phase = "adding" =>
              attempted = {} /\ storeRows = {} /\ submitted = <<>>
        /\ run.phase # "adding" =>
              /\ Called = creates
              /\ \A i \in 1..Len(colLog) : colLog[i].status # "sent"
        /\ Cardinality(storeColumns) <= Len(DefaultColumnDefs) + Len(creates)

\* an import of two groups of rows has ended after creating two columns
C13_Witness ==
    /\ run.phase = "ended"
    /\ run.kind \in ImportKinds
    /\ run.total > ImportBatchSizeOf(run.kind)
    /\ Cardinality(storeRows) = run.total
    /\ Len(colLog) = Len(csvHeaders)
    /\ \A i \in 1..Len(colLog) : colLog[i].status = "ok"

(***************************************************************************)
(* C18: no two columns of the workspace have the same position, also after *)
(* an import that creates two or more columns in one run.                  *)
(***************************************************************************)
C18_PositionsUnique ==
    \A a, b \in storeColumns : a.position = b.position => a = b

(***************************************************************************)
(* The column-settings dialog and the delete_column operation of the store *)
(* route.  The dialog shows the delete controls only for a column that is  *)
(* not protected; the Delete button is enabled once the typed text equals  *)
(* the column's name.                                                      *)
(***************************************************************************)
TableTypes == {"people", "companies"}

\* the field keys of DEFAULT_COLUMNS
DefaultFieldKeys(tableType) ==
    IF tableType = "people"
    THEN {"first_name", "last_name", "email", "email_status", "linkedin_url",
          "company_name", "title", "company_website"}
    ELSE {"company_name", "website", "location", "headcount", "description",
          "phone", "linkedin_url"}

isProtectedColumnNever(fieldKey, tableType) == FALSE

isProtectedColumn(fieldKey, tableType) == fieldKey \in DefaultFieldKeys(tableType)

\* what the user may type into the confirmation field
ConfirmTexts == {"", "Email", "Email Address", "email address"}

NoRequest == [state |-> "none"]

\* a workspace with two default columns, a column added by its user and a
\* second column that the user named Email; one row with a value in each
SettingsColumns ==
    DefaultColumnDefs \o
        <<Column(3, "Email Address", toFieldKey("Email Address"), 2, FALSE),
          Column(4, "Email", toFieldKey("Email"), 3, FALSE)>>

InitSettings ==
    /\ storeRows = {1}
    /\ storeCells = {StoreCell(1, SettingsColumns[i].id, "a") :
                        i \in 1..Len(SettingsColumns)}
    /\ nextRowId = 2
    /\ rows = <<1>>
    /\ cellValues = [i \in 1..Len(SettingsColumns) |->
                        CacheCell("db", 1, SettingsColumns[i].id, "a")]
    /\ inflight = {}
    /\ fetches = {}
    /\ nCalls = 0
    /\ nFetches = 0
    /\ twice = Idle
    /\ InitLedger
    /\ InitNav
    /\ InitJobs
    /\ storeColumns = SeqToSet(SettingsColumns)
    /\ columns = SettingsColumns
    /\ nextColId = Len(SettingsColumns) + 1
    /\ mapper = NoMapper
    /\ colLog = <<>>
    /\ \E tableType \in TableTypes :
          dialog = [open |-> FALSE, tableType |-> tableType, request |-> NoRequest]

DialogFrame ==
    /\ UNCHANGED <<storeColumns, columns, nextColId, mapper, colLog>>
    /\ UNCHANGED <<cacheVars, ledgerVars, jobVars>>
    /\ UNCHANGED navVars

\* the dialog opens on a column of the grid; its effect resets the fields
OpenSettings(i) ==
    /\ ~dialog.open
    /\ dialog.request.state \in {"none", "done"}
    /\ i \in 1..Len(columns)
    /\ dialog' = [open |-> TRUE, tableType |-> dialog.tableType,
                  request |-> NoRequest, column |-> columns[i],
                  showDeleteConfirm |-> FALSE, confirmText |-> "",
                  deleting |-> FALSE]
    /\ DialogFrame
    /\ UNCHANGED navVars

CloseSettings ==
    /\ dialog.open
    /\ dialog' = [dialog EXCEPT !.open = FALSE]
    /\ DialogFrame
    /\ UNCHANGED navVars

isProtected == isProtectedColumn(dialog.column.field_key, dialog.tableType)

\* the Delete Column button of the danger zone
ShowDeleteConfirm ==
    /\ dialog.open
    /\ ~isProtected
    /\ ~dialog.showDeleteConfirm
    /\ dialog' = [dialog EXCEPT !.showDeleteConfirm = TRUE]
    /\ DialogFrame
    /\ UNCHANGED navVars

\* the confirmation field
TypeConfirmText(text) ==
    /\ dialog.open
    /\ ~isProtected
    /\ dialog.showDeleteConfirm
    /\ ~dialog.deleting
    /\ text # dialog.confirmText
    /\ dialog' = [dialog EXCEPT !.confirmText = text]
    /\ DialogFrame
    /\ UNCHANGED navVars

\* the Cancel button of the confirmation
CancelDeleteConfirm ==
    /\ dialog.open
    /\ ~isProtected
    /\ dialog.showDeleteConfirm
    /\ ~dialog.deleting
    /\ dialog' = [dialog EXCEPT !.showDeleteConfirm = FALSE, !.confirmText = ""]
    /\ DialogFrame
    /\ UNCHANGED navVars

canDelete == dialog.confirmText = dialog.column.name

\* handleDelete, up to the await: deleteColumn(column.id) is called
handleDelete ==
    /\ dialog.open
    /\ ~isProtected
    /\ dialog.showDeleteConfirm
    /\ ~dialog.deleting
    /\ canDelete
    /\ dialog' = [dialog EXCEPT
                    !.deleting = TRUE,
                    !.request = [state |-> "cells", columnId |-> dialog.column.id,
                                 field_key |-> dialog.column.field_key,
                                 cellErr |-> FALSE, colErr |-> FALSE,
                                 result |-> "pending"]]
    /\ DialogFrame
    /\ UNCHANGED navVars

\* delete_column, first statement: the cell values of the column
DeleteCellsOk ==
    /\ dialog.request.state = "cells"
    /\ storeCells' = {x \in storeCells : x.column_id # dialog.request.columnId}
    /\ dialog' = [dialog EXCEPT !.request.state = "column"]
    /\ UNCHANGED <<storeColumns, columns, nextColId, mapper, colLog>>
    /\ UNCHANGED <<storeRows, nextRowId, rows, cellValues, inflight, fetches,
                   nCalls, nFetches, twice>>
    /\ UNCHANGED <<ledgerVars, jobVars>>
    /\ UNCHANGED navVars

DeleteCellsErrorIgnored ==
    /\ dialog.request.state = "cells"
    /\ dialog' = [dialog EXCEPT !.request.state = "column", !.request.cellErr = TRUE]
    /\ DialogFrame
    /\ UNCHANGED navVars

\* if (cellErr) return 400
DeleteCellsError ==
    /\ dialog.request.state = "cells"
    /\ dialog' = [dialog EXCEPT !.request.state = "error", !.request.cellErr = TRUE]
    /\ DialogFrame
    /\ UNCHANGED navVars

\* delete_column, second statement: the column definition; then success
DeleteColumnOk ==
    /\ dialog.request.state = "column"
    /\ storeColumns' = {x \in storeColumns : x.id # dialog.request.columnId}
    /\ dialog' = [dialog EXCEPT !.request.state = "ok"]
    /\ UNCHANGED <<columns, nextColId, mapper, colLog>>
    /\ UNCHANGED <<cacheVars, ledgerVars, jobVars>>
    /\ UNCHANGED navVars

\* if (colErr) return 400
DeleteColumnError ==
    /\ dialog.request.state = "column"
    /\ dialog' = [dialog EXCEPT !.request.state = "error", !.request.colErr = TRUE]
    /\ DialogFrame
    /\ UNCHANGED navVars

RECURSIVE Without(_, _)
Without(cols, id) ==
    IF cols = <<>> THEN <<>>
    ELSE IF Head(cols).id = id THEN Without(Tail(cols), id)
         ELSE <<Head(cols)>> \o Without(Tail(cols), id)

WithoutColumn(cvs, id) ==
    LET Other(cv) == cv.column_id # id IN SelectSeq(cvs, Other)

\* deleteColumn resolves: the column leaves the provider's state, the
\* dialog toasts and closes
DeleteReturned ==
    /\ dialog.request.state = "ok"
    /\ columns' = Without(columns, dialog.request.columnId)
    /\ cellValues' = WithoutColumn(cellValues, dialog.request.columnId)
    /\ toast' = "Column deleted"
    /\ dialog' = [dialog EXCEPT !.open = FALSE, !.request.state = "done",
                                !.request.result = "ok"]
    /\ UNCHANGED <<storeColumns, nextColId, mapper, colLog>>
    /\ UNCHANGED <<storeRows, storeCells, nextRowId, rows, inflight, fetches,
                   nCalls, nFetches, twice>>
    /\ UNCHANGED <<undoStack, redoStack, law, stale, lastOutcome>>
    /\ UNCHANGED jobVars
    /\ UNCHANGED navVars

\* deleteColumn throws: catch { toast; setDeleting(false) }
DeleteFailed ==
    /\ dialog.request.state = "error"
    /\ toast' = "Failed to delete column"
    /\ dialog' = [dialog EXCEPT !.deleting = FALSE, !.request.state = "done",
                                !.request.result = "error"]
    /\ UNCHANGED <<storeColumns, columns, nextColId, mapper, colLog>>
    /\ UNCHANGED cacheVars
    /\ UNCHANGED <<undoStack, redoStack, law, stale, lastOutcome>>
    /\ UNCHANGED jobVars
    /\ UNCHANGED navVars

NextSettings ==
    \/ \E i \in 1..Len(columns) : OpenSettings(i)
    \/ CloseSettings
    \/ ShowDeleteConfirm
    \/ \E text \in ConfirmTexts : TypeConfirmText(text)
    \/ CancelDeleteConfirm
    \/ handleDelete
    \/ DeleteCellsOk
    \/ DeleteCellsError
    \/ DeleteColumnOk
    \/ DeleteColumnError
    \/ DeleteReturned
    \/ DeleteFailed

SpecSettings == InitSettings /\ [][NextSettings]_vars

(***************************************************************************)
(* C14: delete_column deletes the cell values of the column before the     *)
(* column definition; when it reports success neither the column nor a     *)
(* cell value referencing it is left in the store; when deleting the cell  *)
(* values fails the column definition is not deleted.                      *)
(***************************************************************************)
ColumnStored(id) == \E x \in storeColumns : x.id = id

CellsStored(id) == \E x \in storeCells : x.column_id = id

Reported(result) ==
    \/ dialog.request.state = result
    \/ dialog.request.state = "done" /\ dialog.request.result = result

C14_DeleteColumnCascades ==
    dialog.request.state # "none" =>
        LET id == dialog.request.columnId IN
        /\ ~ColumnStored(id) => ~CellsStored(id)
        /\ Reported("ok") => ~ColumnStored(id) /\ ~CellsStored(id)
        /\ dialog.request.cellErr => ColumnStored(id)

\* a delete whose first statement went through and whose second failed
C14_Witness ==
    /\ Reported("error")
    /\ dialog.request.colErr
    /\ ~CellsStored(dialog.request.columnId)
    /\ ColumnStored(dialog.request.columnId)

(***************************************************************************)
(* C19: the dialog never calls deleteColumn for a column whose field key   *)
(* is one of the default field keys of the workspace's table type; for a   *)
(* column with another field key the call is made once its exact name has  *)
(* been typed, and only then.                                              *)
(***************************************************************************)
C19_ProtectedNeverDeleted ==
    /\ dialog.request.state # "none" =>
          dialog.request.field_key \notin DefaultFieldKeys(dialog.tableType)
    /\ \A x \in SeqToSet(SettingsColumns) :
          x.field_key \in DefaultFieldKeys(dialog.tableType) => x \in storeColumns
    /\ dialog.request.state \in {"cells", "column", "ok", "error"} =>
          dialog.confirmText = dialog.column.name

\* the column the user named Email is deleted from a companies workspace
C19_Witness ==
    /\ Reported("ok")
    /\ dialog.request.state = "done"
    /\ dialog.request.field_key = "email"
    /\ ~ColumnStored(dialog.request.columnId)

(***************************************************************************)
(* The choice of the rows of a run.  The grid holds MaxPick rows whose     *)
(* address and status (the target column of RunAiColumnModal) are any of   *)
(* the blank and non-blank forms; the workspace may lack the Email Status  *)
(* column.                                                                 *)
(***************************************************************************)
MaxPick == 2

EmailValues == {Undefined, "", " ", "a"}

StatusValues == {Undefined, "", "valid"}

PickCells(email, status) ==
    {StoreCell(r, emailCol, email[r]) : r \in {q \in 1..MaxPick : email[q] # Undefined}}
        \cup
    {StoreCell(r, targetCol, status[r]) : r \in {q \in 1..MaxPick : status[q] # Undefined}}

InitVerify ==
    /\ storeRows = 1..MaxPick
    /\ nextRowId = MaxPick + 1
    /\ rows = [i \in 1..MaxPick |-> i]
    /\ \E hasStatus \in BOOLEAN, email \in [1..MaxPick -> EmailValues],
          status \in [1..MaxPick -> StatusValues] :
          /\ ~hasStatus => \A r \in 1..MaxPick : status[r] = Undefined
          /\ storeCells = PickCells(email, status)
          /\ cellValues = FetchedCells(PickCells(email, status), 1..MaxPick)
          /\ columns = IF hasStatus THEN DefaultColumnDefs
                       ELSE <<DefaultColumnDefs[1]>>
          /\ storeColumns = IF hasStatus THEN SeqToSet(DefaultColumnDefs)
                            ELSE {DefaultColumnDefs[1]}
    /\ nextColId = Len(DefaultColumnDefs) + 1
    /\ mapper = NoMapper
    /\ dialog = NoDialog
    /\ colLog = <<>>
    /\ inflight = {}
    /\ fetches = {}
    /\ nCalls = 0
    /\ nFetches = 0
    /\ twice = Idle
    /\ InitLedger
    /\ InitNav
    /\ InitJobs

NextVerify ==
    \/ \E n \in 1..MaxPick, skip \in BOOLEAN : RunStart(n, skip)
    \/ \E sel \in SUBSET (1..MaxPick), n \in {1, MaxPick}, skip \in BOOLEAN :
          VerifyStart("selected", sel, n, skip)
    \/ \E sel \in {{}, {MaxPick}}, n \in 1..MaxPick, skip \in BOOLEAN :
          VerifyStart("top_n", sel, n, skip)
    \/ VerifyColumnAdded
    \/ VerifyNoStatusColumn
    \/ GroupStart
    \/ \E k \in DOMAIN requests, v \in Values : RouteOk(k, v)
    \/ \E k \in DOMAIN requests : RouteExternalFails(k)
    \/ \E k \in DOMAIN requests : ItemSettle(k)
    \/ GroupJoin
    \/ \E outcome \in RefreshOutcomes : RunEnd(outcome)

SpecVerify == InitVerify /\ [][NextVerify]_vars

\* the grid is the one the run was started on until the run refreshes it
Chosen(kind) ==
    /\ run.phase \in {"adding", "loop", "join"}
    /\ run.kind = kind

FirstRows(k) == {rows[i] : i \in 1..Min(k, Len(rows))}

InDisplayOrder(items) ==
    \A a, b \in 1..Len(items) :
        a < b => \E i, j \in 1..Len(rows) :
                    i < j /\ rows[i] = items[a] /\ rows[j] = items[b]

(***************************************************************************)
(* C15: the rows of an AI-enrichment run are the first K grid rows in      *)
(* display order; with skip-existing on, without those whose value in the  *)
(* target column is non-empty; with skip-existing off, all of them.        *)
(***************************************************************************)
Filled(r, c) == GridValue(cellValues, r, c) \notin {Undefined, ""}

Pool ==
    IF run.input.runMode = "selected"
    THEN SeqToSet(rows) \cap run.input.selectedRowIds
    ELSE FirstRows(run.input.rowCount)

BlankEmail(r) == GridValue(cellValues, r, emailCol) \in {Undefined, "", " "}

HasStatus(r) ==
    /\ find(columns, "email_status") # 0
    /\ Filled(r, columns[find(columns, "email_status")].id)

C16_VerifyRowsAreFiltered ==
    Chosen("handleVerify") =>
        /\ SeqToSet(run.items) =
              {r \in Pool : ~BlankEmail(r) /\ (run.input.skip => ~HasStatus(r))}
        /\ InDisplayOrder(run.items)
        /\ \A k \in attempted : ~BlankEmail(run.items[k])

\* a selection with a blank address in it: only the other row is sent
C16_Witness ==
    /\ Chosen("handleVerify")
    /\ run.input.runMode = "selected"
    /\ \E r \in run.input.selectedRowIds : GridValue(cellValues, r, emailCol) = " "
    /\ attempted # {}

(***************************************************************************)
(* C17: a verification started without an Email Status column calls        *)
(* addColumn once, and no request is posted before it has returned a       *)
(* column; when it returns null no request is posted, no progress is set,  *)
(* the failure is toasted and running is cleared.                          *)
(***************************************************************************)
HadStatusColumn == \E c \in storeColumns : c.id = targetCol

C17_StatusColumnFirst ==
    (run.phase # "idle" /\ run.kind = "handleVerify") =>
        /\ Len(colLog) = IF HadStatusColumn THEN 0 ELSE 1
        /\ attempted # {} =>
              /\ colLog # <<>> => colLog[1].status = "ok"
              /\ find(columns, "email_status") # 0
        /\ run.phase = "adding" => colLog[1].status = "sent" /\ progress = <<>>
        /\ (colLog # <<>> /\ colLog[1].status = "null") <=> run.phase = "aborted"
        /\ run.phase = "aborted" =>
              /\ attempted = {}
              /\ requests = <<>>
              /\ progress = <<>>
              /\ summary = [type |-> "error",
                            text |-> "Failed to create Email Status column"]
              /\ ~run.running

\* addColumn returned null and the run is over
C17_Witness ==
    /\ run.phase = "aborted"
    /\ colLog # <<>>
    /\ colLog[1].status = "null"
    /\ ~run.running

(***************************************************************************)
(* C20: every run of handleRun, handleVerify and runEnrichment ends with   *)
(* a summary that reports partial failure when at least one row failed     *)
(* and full success only when no row failed.                               *)
(***************************************************************************)
C20_SummaryTellsFailure ==
    (run.phase = "ended" /\ run.kind \in RunKinds) =>
        /\ failed # {} => summary.type = "info" /\ summary.failed = Cardinality(failed)
        /\ failed = {} => summary.type = "success"

(***************************************************************************)
(* C21: when the upsert of a cell edit fails, the step in which the        *)
(* handler catches the failure leaves the undo stack, the redo stack and   *)
(* the cache as they are (the cell keeps its prior value, or stays without *)
(* an entry) and toasts the failure; the store is not written either.      *)
(***************************************************************************)
EditFailing == {x \in inflight : x.caller = "edit" /\ x.pc = "failed"}

C21_FailedEditChangesNothing ==
    [][(\E x \in EditFailing : \A y \in inflight' : y.id # x.id) =>
          /\ undoStack' = undoStack
          /\ redoStack' = redoStack
          /\ cellValues' = cellValues
          /\ storeCells' = storeCells
          /\ toast' = "Failed to save cell"]_vars

\* an edit failed after an earlier edit had been recorded
C21_Witness ==
    /\ toast = "Failed to save cell"
    /\ undoStack # <<>>
    /\ EditFailing = {}

(***************************************************************************)
(* Deleting the selected rows: DataGrid.handleDeleteSelectedRows and the   *)
(* route's delete_rows, which walks the row ids twice in groups of         *)
(* rowBatch: first the cell values, then the rows.  The result of a        *)
(* delete of cell values is not looked at.                                 *)
(***************************************************************************)
MaxDeleteRows == 51

DeleteRowBatch == 50

InitDeleteRows ==
    /\ storeRows = 1..MaxDeleteRows
    /\ storeCells = {StoreCell(r, emailCol, "a") : r \in 1..MaxDeleteRows}
    /\ nextRowId = MaxDeleteRows + 1
    /\ rows = [i \in 1..MaxDeleteRows |-> i]
    /\ cellValues = [i \in 1..MaxDeleteRows |-> CacheCell("db", i, emailCol, "a")]
    /\ inflight = {}
    /\ fetches = {}
    /\ nCalls = 0
    /\ nFetches = 0
    /\ twice = Idle
    /\ InitLedger
    /\ InitNav
    /\ InitJobs
    /\ InitCols

\* the selections of the model: the first n rows of the grid
Selection(n) == SubSeq(rows, 1, n)

\* handleDeleteSelectedRows, up to the await of deleteRows
handleDeleteSelectedRows(selectedRowIds) ==
    /\ run.phase = "idle"
    /\ Len(selectedRowIds) # 0
    /\ run' = [phase |-> "cells", kind |-> "deleteRows", rowIds |-> selectedRowIds,
               i |-> 0, deleting |-> TRUE, ignored |-> FALSE, result |-> "pending"]
    /\ UNCHANGED <<requests, failed, progress, summary, attempted, submitted>>
    /\ UNCHANGED <<cacheVars, ledgerVars, colVars>>
    /\ UNCHANGED navVars

\* op.rowIds.slice(i, i + rowBatch)
RowBatch == SeqToSet(Slice(run.rowIds, run.i, run.i + DeleteRowBatch))

\* the loop variable after a group, and the statement that follows the loop
AfterBatch(r, next) ==
    IF r.i + DeleteRowBatch < Len(r.rowIds)
    THEN [r EXCEPT !.i = @ + DeleteRowBatch]
    ELSE [r EXCEPT !.i = 0, !.phase = next]

\* first loop: the cell values of a group are deleted
RowCellsDeleted ==
    /\ run.phase = "cells"
    /\ run.kind = "deleteRows"
    /\ storeCells' = {x \in storeCells : x.row_id \notin RowBatch}
    /\ run' = AfterBatch(run, "rows")
    /\ UNCHANGED <<storeRows, nextRowId, rows, cellValues, inflight, fetches,
                   nCalls, nFetches, twice>>
    /\ UNCHANGED <<requests, failed, progress, summary, attempted, submitted>>
    /\ UNCHANGED <<ledgerVars, colVars>>
    /\ UNCHANGED navVars

\* first loop: the delete returns an error, which the handler does not read
RowCellsNotDeleted ==
    /\ run.phase = "cells"
    /\ run.kind = "deleteRows"
    /\ run' = [AfterBatch(run, "rows") EXCEPT !.ignored = TRUE]
    /\ UNCHANGED <<requests, failed, progress, summary, attempted, submitted>>
    /\ UNCHANGED <<cacheVars, ledgerVars, colVars>>
    /\ UNCHANGED navVars

\* second loop: the rows of a group are deleted; after the last, success
RowsDeleted ==
    /\ run.phase = "rows"
    /\ run.kind = "deleteRows"
    /\ storeRows' = storeRows \ RowBatch
    /\ run' = AfterBatch(run, "ok")
    /\ UNCHANGED <<storeCells, nextRowId, rows, cellValues, inflight, fetches,
                   nCalls, nFetches, twice>>
    /\ UNCHANGED <<requests, failed, progress, summary, attempted, submitted>>
    /\ UNCHANGED <<ledgerVars, colVars>>
    /\ UNCHANGED navVars

\* second loop: if (error) return 400
RowsNotDeleted ==
    /\ run.phase = "rows"
    /\ run.kind = "deleteRows"
    /\ run' = [run EXCEPT !.phase = "error"]
    /\ UNCHANGED <<requests, failed, progress, summary, attempted, submitted>>
    /\ UNCHANGED <<cacheVars, ledgerVars, colVars>>
    /\ UNCHANGED navVars

InRows(r) == r \in storeRows

\* deleteRows resolves: setSelectedRowIds([]), toast, setDeleting(false);
\* the provider's rows and cell values are those left in the store
RowsDeleteReturned ==
    /\ run.phase = "ok"
    /\ run.kind = "deleteRows"
    /\ rows' = SelectSeq(rows, InRows)
    /\ cellValues' = LET Kept(cv) == cv.row_id \in storeRows
                     IN SelectSeq(cellValues, Kept)
    /\ summary' = [type |-> "success", text |-> "rows deleted",
                   count |-> Len(run.rowIds)]
    /\ run' = [run EXCEPT !.phase = "done", !.result = "ok", !.deleting = FALSE]
    /\ UNCHANGED <<storeRows, storeCells, nextRowId, inflight, fetches,
                   nCalls, nFetches, twice>>
    /\ UNCHANGED <<requests, failed, progress, attempted, submitted>>
    /\ UNCHANGED <<ledgerVars, colVars>>
    /\ UNCHANGED navVars

\* deleteRows throws: toast('Failed to delete rows'), setDeleting(false)
RowsDeleteFailed ==
    /\ run.phase = "error"
    /\ run.kind = "deleteRows"
    /\ summary' = [type |-> "error", text |-> "Failed to delete rows"]
    /\ run' = [run EXCEPT !.phase = "done", !.result = "error", !.deleting = FALSE]
    /\ UNCHANGED <<requests, failed, progress, attempted, submitted>>
    /\ UNCHANGED <<cacheVars, ledgerVars, colVars>>
    /\ UNCHANGED navVars

NextDeleteRows ==
    \/ \E n \in 1..MaxDeleteRows : handleDeleteSelectedRows(Selection(n))
    \/ RowCellsDeleted
    \/ RowCellsNotDeleted
    \/ RowsDeleted
    \/ RowsNotDeleted
    \/ RowsDeleteReturned
    \/ RowsDeleteFailed

SpecDeleteRows == InitDeleteRows /\ [][NextDeleteRows]_vars

(***************************************************************************)
(* C22: delete_rows deletes the cell values of all the given rows before   *)
(* it deletes any of them, and when it reports success none of the given   *)
(* rows and no cell value of any of them is left in the store.             *)
(***************************************************************************)
Given == SeqToSet(run.rowIds)

C22_DeleteRowsCascades ==
    (run.phase # "idle" /\ run.kind = "deleteRows") =>
        /\ (\E r \in Given : r \notin storeRows) =>
              \A x \in storeCells : x.row_id \notin Given
        /\ run.phase = "ok" \/ (run.phase = "done" /\ run.result = "ok") =>
              /\ Given \cap storeRows = {}
              /\ \A x \in storeCells : x.row_id \notin Given

(***************************************************************************)
(* C23: a bulk operation refreshes only after its last group has been      *)
(* joined, and after that refresh (nothing else writes meanwhile) the      *)
(* cache's rows and cell values are the store's.                           *)
(***************************************************************************)
CacheIsStore ==
    /\ SeqToSet(rows) = storeRows
    /\ {StoreCell(cellValues[i].row_id, cellValues[i].column_id, cellValues[i].value) :
           i \in 1..Len(cellValues)} = storeCells

C23_RefreshMirrorsStore ==
    (run.phase = "ended" /\ run.kind \in RunKinds) =>
        /\ run.i >= run.total
        /\ \A k \in 1..run.total : requests[k] = "settled"
        /\ CacheIsStore

(***************************************************************************)
(* C24: an import of N records in which every insert goes through creates  *)
(* N rows and, for each record and each mapped field with a non-empty      *)
(* value, one cell value (the record's row, the field's column) holding    *)
(* it, and nothing else; the i-th record of a group goes with the i-th row *)
(* the group's insert returned.                                            *)
(***************************************************************************)
AllInsertsWentThrough ==
    /\ failed = {}
    /\ \A i \in 1..Len(colLog) : colLog[i].status = "ok"

\* the column of a mapped field: the chosen one, or the one created for it
ColumnOf(m) ==
    IF m.target = "column" THEN m.id
    ELSE (CHOOSE c \in storeColumns :
             c.name = m.csvHeader /\ c.id > Len(DefaultColumnDefs)).id

\* rows get their ids in the order of the records
ExpectedCells ==
    LET data == csvData(run.csvRow, run.total)
        ms == activeMappings(run.mappings)
    IN {StoreCell(k, ColumnOf(ms[j]), data[k][ms[j].csvHeader]) :
           <<k, j>> \in {p \in (1..run.total) \X (1..Len(ms)) :
                            data[p[1]][ms[p[2]].csvHeader] \notin {"", Undefined}}}

C24_ImportCreatesRowsAndCells ==
    (run.phase = "ended" /\ run.kind \in ImportKinds /\ AllInsertsWentThrough) =>
        /\ storeRows = 1..run.total
        /\ storeCells = ExpectedCells
        /\ StoreKeysUnique

\* two groups, both fields mapped, values in odd and in even records
C24_Witness ==
    /\ run.phase = "ended"
    /\ run.kind \in {"csv", "contacts"}
    /\ AllInsertsWentThrough
    /\ run.total > ImportBatchSizeOf(run.kind)
    /\ Len(run.columnMap) = Len(csvHeaders)
    /\ \E x, y \in storeCells : x.value = "a" /\ y.value = "b"

(***************************************************************************)
(* C29: when an import ends with the message 'Imported N rows' (or         *)
(* contacts), N rows were inserted by it; a run in which the insert of a   *)
(* group's rows failed does not report N.                                  *)
(***************************************************************************)
C29_ImportedCountIsInserted ==
    (run.phase = "ended" /\ run.kind \in {"csv", "contacts"}
        /\ summary.type = "success") =>
        /\ summary.count = run.total
        /\ Cardinality(storeRows) = summary.count

(***************************************************************************)
(* C30: the mappers select a column only when the normalized label and the *)
(* normalized column name are both non-empty; a label whose normalized     *)
(* form is empty maps to 'create new', and a column whose normalized name  *)
(* is empty is never selected.                                             *)
(***************************************************************************)
Selections == SeqToSet(mapper.csv) \cup SeqToSet(mapper.contacts)

C30_EmptyFormsNeverMatch ==
    mapper.phase = "mapping" =>
        \A t \in Selections :
            /\ Normalize(mapper.label) = <<>> => t = CreateNew
            /\ t.target = "column" =>
                  /\ Normalize(mapper.label) # <<>>
                  /\ Normalize(mapper.cols[t.id].name) # <<>>

(***************************************************************************)
(* C26: when two upsertCellValue calls for one (row, column) with          *)
(* different values overlap, then once both have completed the cell has    *)
(* the same value in the cache as in the store.                            *)
(***************************************************************************)
StoreValue(r, c) ==
    IF \E x \in storeCells : SameKey(x, r, c)
    THEN (CHOOSE x \in storeCells : SameKey(x, r, c)).value
    ELSE Undefined

C26_ConcurrentUpsertsConverge ==
    (inflight = {} /\ nFetches = 0) =>
        \A r \in storeRows, c \in ColumnIds :
            GridValue(cellValues, r, c) = StoreValue(r, c)

(***************************************************************************)
(* Debounced column widths: updateColumnWidth of workspace-context.tsx.    *)
(* A call sets the width in the columns state at once and schedules the    *)
(* store write 300 ms later; widthTimersRef maps a column to its timer.    *)
(***************************************************************************)

MaxTimers == 4

Widths == {120, 240}

\* the id setTimeout returns: timers are numbered in the order they are set
nextTimerId == Cardinality(timers) + 1

\* clearTimeout(existing): a timer that has not fired yet never fires; on a
\* timer that has fired, or on no timer, it does nothing
clearTimeout(existing) ==
    {IF t.id = existing /\ t.state = "pending"
        THEN [t EXCEPT !.state = "cleared"] ELSE t : t \in timers}

\* updateColumnWidth(columnId, width): setColumns, clear the timer the map
\* holds for the column, set a new one and put it in the map
updateColumnWidth(columnId, width) ==
    /\ Cardinality(timers) < MaxTimers
    /\ widths' = [widths EXCEPT ![columnId] = width]
    /\ timers' = clearTimeout(widthTimers[columnId]) \cup
            {[id |-> nextTimerId, columnId |-> columnId, width |-> width,
              state |-> "pending"]}
    /\ widthTimers' = [widthTimers EXCEPT ![columnId] = nextTimerId]
    /\ UNCHANGED <<activeWorkspaceId, storeWidths>>
    /\ UNCHANGED <<cacheVars, ledgerVars, jobVars, colVars>>

\* 300 ms after it was set a timer fires: its callback sends the update and
\* waits. Timers of one delay fire in the order they were set.
TimerFires(t) ==
    /\ t.state = "pending"
    /\ \A u \in timers : u.state = "pending" => u.id >= t.id
    /\ timers' = (timers \ {t}) \cup {[t EXCEPT !.state = "updating"]}
    /\ UNCHANGED <<activeWorkspaceId, widths, storeWidths, widthTimers>>
    /\ UNCHANGED <<cacheVars, ledgerVars, jobVars, colVars>>

\* the rest of the callback, after the await: timers.delete(columnId),
\* whichever timer the map holds for the column by then
AfterUpdate(t) ==
    /\ timers' = (timers \ {t}) \cup {[t EXCEPT !.state = "done"]}
    /\ widthTimers' = [widthTimers EXCEPT ![t.columnId] = NoTimer]

\* the store wrote the width
WidthUpdateOk(t) ==
    /\ t.state = "updating"
    /\ storeWidths' = [storeWidths EXCEPT ![t.columnId] = t.width]
    /\ AfterUpdate(t)
    /\ UNCHANGED <<activeWorkspaceId, widths>>
    /\ UNCHANGED <<cacheVars, ledgerVars, jobVars, colVars>>

\* the store answered with an error, which the callback does not read
WidthUpdateError(t) ==
    /\ t.state = "updating"
    /\ AfterUpdate(t)
    /\ UNCHANGED <<activeWorkspaceId, widths, storeWidths>>
    /\ UNCHANGED <<cacheVars, ledgerVars, jobVars, colVars>>

InitWidth == InitCache /\ InitLedger /\ InitJobs /\ InitCols /\ InitNav

NextWidth ==
    \/ \E c \in ColumnIds, w \in Widths : updateColumnWidth(c, w)
    \/ \E t \in timers : TimerFires(t)
    \/ \E t \in timers : WidthUpdateOk(t)
    \/ \E t \in timers : WidthUpdateError(t)

SpecWidth == InitWidth /\ [][NextWidth]_vars

Pending(columnId) ==
    {t \in timers : t.columnId = columnId /\ t.state = "pending"}

\* C28: for each column at most one width timer is pending at any time,
\* also when updateColumnWidth is called while an earlier timer's store
\* update for that column is still waiting for its answer.
C28_OnePendingTimerPerColumn ==
    \A c \in ColumnIds : Cardinality(Pending(c)) <= 1

\* C25: when a refresh that overlapped an upsertCellValue completes after
\* the upsert has returned, and none of its selects returned an error, the
\* cache it leaves holds for every cell the value the store holds.
C25_RefreshKeepsAppliedUpsert ==
    [][\A f \in fetches :
          (/\ f.pc = "resume"
           /\ ~f.error
           /\ inflight = {}
           /\ \A g \in fetches' : g.id # f.id)
          => \A r \in storeRows, c \in ColumnIds :
                GridValue(cellValues', r, c) = StoreValue(r, c)']_vars

(***************************************************************************)
(* Switching workspaces: setActiveWorkspaceId and the effect that calls    *)
(* fetchWorkspaceData(activeWorkspaceId) when the id has changed.          *)
(***************************************************************************)

MaxSwitches == 3

\* two workspaces of one row and one cell value each; the first is loaded
InitSwitch ==
    /\ storeRows = {1} \cup OtherWorkspaceRows
    /\ storeCells = {StoreCell(r, 1, "a") : r \in {1} \cup OtherWorkspaceRows}
    /\ nextRowId = 2
    /\ rows = StoreSelectRows(0)
    /\ cellValues = FetchedCells(storeCells, SeqToSet(rows))
    /\ inflight = {}
    /\ fetches = {}
    /\ nCalls = 0
    /\ nFetches = 0
    /\ twice = Idle
    /\ InitLedger
    /\ InitJobs
    /\ InitCols
    /\ InitNav

\* the user selects another workspace: the state changes, the effect runs
\* and starts a fetch for the new id; a fetch still running goes on
setActiveWorkspaceId(id) ==
    /\ nFetches < MaxSwitches
    /\ id # activeWorkspaceId
    /\ activeWorkspaceId' = id
    /\ nFetches' = nFetches + 1
    /\ fetches' = fetches \cup {Fetch(nFetches + 1, id)}
    /\ UNCHANGED <<storeRows, storeCells, nextRowId, rows, cellValues>>
    /\ UNCHANGED <<inflight, nCalls, twice>>
    /\ UNCHANGED <<widths, storeWidths, widthTimers, timers>>
    /\ UNCHANGED <<ledgerVars, jobVars, colVars>>

NextSwitch ==
    \/ \E id \in WorkspaceIds : setActiveWorkspaceId(id)
    \/ \E f \in fetches : FetchRows(f)
    \/ \E f \in fetches : FetchCells(f)
    \/ \E f \in fetches : FetchCellsResume(f)
    \/ \E f \in fetches : FetchRowsError(f)
    \/ \E f \in fetches : FetchCellsError(f)

SpecSwitch == InitSwitch /\ [][NextSwitch]_vars

\* C27: whenever no fetch is in flight, the cached rows and cell values
\* are rows and cell values of the active workspace.
C27_CacheIsOfActiveWorkspace ==
    fetches = {} =>
        /\ \A i \in 1..Len(rows) : workspace_id(rows[i]) = activeWorkspaceId
        /\ \A i \in 1..Len(cellValues) :
              workspace_id(cellValues[i].row_id) = activeWorkspaceId

====
